---- MODULE Spec2Model ----
(***************************************************************************)
(* Model of the @ddspog/pom package: the Mockup compositor of              *)
(* src/src/Mockup.ts, its predecessor of src/src/MockupFunction.ts, and    *)
(* the browser-automation capability (pages of one browser context) they   *)
(* drive.  Every await of the two async functions is one step; the         *)
(* capability decides, at each step, whether the awaited call resolves or  *)
(* rejects.                                                                *)
(***************************************************************************)
EXTENDS Integers, Sequences, FiniteSets, TLC

(***************************************************************************)
(* Bounds of the model.                                                    *)
(***************************************************************************)
\* Number of callers, each holding its own source page handle.
NumInvocations == 2
\* Longest url, in characters, a caller passes.
MaxUrlLen == 1
\* Number of disposable pages the browser context can hold at once.
MaxEphemeral == 2
\* Most arguments the engine accepts in one call, String.fromCharCode(...bytes)
\* included (of the order of 10^5 in node; the number is the engine's).
MaxSpreadArguments == 4

(***************************************************************************)
(* Program constants.                                                      *)
(***************************************************************************)
\* img?.naturalWidth || 800
DefaultWidth == 800
\* img?.naturalHeight || 600
DefaultHeight == 600
\* width: ${dimensions.width + 2}px
BorderWidth == 2

Invocations == 1..NumInvocations
\* The source page of caller p is page p; disposable pages take the next ids.
PageIds == 1..(NumInvocations + MaxEphemeral)
EphemeralIds == PageIds \ Invocations

(***************************************************************************)
(* JavaScript objects are functions from the keys they hold; an absent     *)
(* key reads as undefined.                                                 *)
(***************************************************************************)
Undefined == "undefined"

Get(o, k) == IF k \in DOMAIN o THEN o[k] ELSE Undefined

\* { ...a, ...b }: the keys of both, b's value where both hold the key.
Spread(a, b) ==
    [k \in (DOMAIN a) \cup (DOMAIN b) |-> IF k \in DOMAIN b THEN b[k] ELSE a[k]]

\* const { k1, k2, ...rest } = o: what is left of o without the named keys.
Rest(o, named) == [k \in (DOMAIN o) \ named |-> o[k]]

\* The object holding the single key k.
Single(k, v) == [x \in {k} |-> v]

\* All objects over the keys of choices (a function key -> set of values),
\* each key either absent or holding one of its values.
RECURSIVE ObjectsOver(_, _)
ObjectsOver(keys, choices) ==
    IF keys = {} THEN { [x \in {} |-> 0] }
    ELSE LET k == CHOOSE x \in keys : TRUE
             smaller == ObjectsOver(keys \ {k}, choices)
         IN  smaller \cup
             { Spread(o, Single(k, v)) : o \in smaller, v \in choices[k] }

(***************************************************************************)
(* Strings the code builds: a string is the sequence of its pieces, the    *)
(* interpolated values among them.                                         *)
(***************************************************************************)
UrlChars == {"a", "<", ">", "&", "\""}

Urls == UNION { [1..n -> UrlChars] : n \in 0..MaxUrlLen }

\* `${n}` of a non-negative integer: its decimal digits.
RECURSIVE Digits(_)
Digits(n) == IF n < 10 THEN <<n>> ELSE Digits(n \div 10) \o <<n % 10>>

\* btoa over the bytes of the screenshot: every 3 bytes give 4 sextets,
\* a short last group is padded with '=' (written 64).
Pad == 64

RECURSIVE Base64(_)
Base64(bytes) ==
    IF Len(bytes) = 0 THEN <<>>
    ELSE IF Len(bytes) = 1 THEN
        << bytes[1] \div 4, (bytes[1] % 4) * 16, Pad, Pad >>
    ELSE IF Len(bytes) = 2 THEN
        << bytes[1] \div 4, (bytes[1] % 4) * 16 + bytes[2] \div 16,
           (bytes[2] % 16) * 4, Pad >>
    ELSE
        << bytes[1] \div 4, (bytes[1] % 4) * 16 + bytes[2] \div 16,
           (bytes[2] % 16) * 4 + bytes[3] \div 64, bytes[3] % 64 >>
        \o Base64(SubSeq(bytes, 4, Len(bytes)))

\* `data:${type === 'jpeg' ? 'image/jpeg' : 'image/png'};base64,${btoa(...)}`
DataURL(type, bytes) ==
    << "data:", IF type = "jpeg" THEN "image/jpeg" ELSE "image/png",
       ";base64,", Base64(bytes) >>

(***************************************************************************)
(* The HTML documents.  Piece 2 of every document is the text of its       *)
(* <title>; the other even pieces are the interpolated values.             *)
(***************************************************************************)
\* The page of the tests' beforeEach.
SourceContent ==
    << "<!DOCTYPE html><html><head><title>", "Test Page",
       "</title>...</head><body>...</body></html>" >>

\* The template literal of getImageDimensions.
MeasureHtml(dataURL) ==
    << "<!DOCTYPE html><html><head><title>", "Measure",
       "</title></head><body><img id=\"measure-img\" src=\"", dataURL,
       "\"></body></html>" >>

\* MountBrowserMockup sizing the container to the image width, without the
\* two border pixels.
MountBrowserMockup_NoBorder(url, dataURL, dimensions) ==
    << "<!DOCTYPE html><html lang=\"en\"><head>...<title>", "Browser Mockup",
       "</title>...</head><body><div aria-label=\"Browser Window\" style=\"... width: ",
       Digits(dimensions.width),
       "px; ...\"><div aria-label=\"Browser Top Bar\">...<div aria-label=\"Address Bar\"><a target=\"_blank\">(lock) ",
       url,
       "</a></div></div><div aria-label=\"Browser Content\"><img alt=\"Page Screenshot\" style=\"width: ",
       Digits(dimensions.width),
       "px; height: ",
       Digits(dimensions.height),
       "px; ...\" src=\"",
       dataURL,
       "\" ></div></div></body></html>" >>

\* function MountBrowserMockup(url, dataURL, dimensions)
MountBrowserMockup(url, dataURL, dimensions) ==
    << "<!DOCTYPE html><html lang=\"en\"><head>...<title>", "Browser Mockup",
       "</title>...</head><body><div aria-label=\"Browser Window\" style=\"... width: ",
       Digits(dimensions.width + BorderWidth),
       "px; ...\"><div aria-label=\"Browser Top Bar\">...<div aria-label=\"Address Bar\"><a target=\"_blank\">(lock) ",
       url,
       "</a></div></div><div aria-label=\"Browser Content\"><img alt=\"Page Screenshot\" style=\"width: ",
       Digits(dimensions.width),
       "px; height: ",
       Digits(dimensions.height),
       "px; ...\" src=\"",
       dataURL,
       "\" ></div></div></body></html>" >>

\* function generateBrowserMockupHtml(url, screenshotDataUrl)
generateBrowserMockupHtml(url, screenshotDataUrl) ==
    << "<!DOCTYPE html><html lang=\"en\"><head>...<title>", "Browser Mockup",
       "</title>...</head><body><div aria-label=\"Browser Window\" style=\"... max-width: 600px; ...\"><div aria-label=\"Browser Top Bar\">...<div aria-label=\"Address Bar\"><a target=\"_blank\">(lock) ",
       url,
       "</a></div></div><div aria-label=\"Browser Content\"><img alt=\"Page Screenshot\" style=\"width: 100%; height: auto; ...\" src=\"",
       screenshotDataUrl,
       "\" ></div></div></body></html>" >>

\* Where the url stands in generateBrowserMockupHtml's document.
FunctionAddressBarAt == 4

\* Where the interpolated values stand in MountBrowserMockup's document.
ContainerWidthAt == 4
AddressBarAt == 6
ImageWidthAt == 8
ImageHeightAt == 10
ImageSrcAt == 12

\* page.title(): the text of the document's <title>.
PageTitle(content) == IF Len(content) >= 2 THEN content[2] ELSE ""

(***************************************************************************)
(* The callback of measurePage.evaluate: img is what getElementById found  *)
(* (present = FALSE for null); a || b is b when a is undefined or 0.       *)
(***************************************************************************)
EvaluateDimensions_NoFallback(img) ==
    [ width  |-> IF img.present THEN img.naturalWidth ELSE 0,
      height |-> IF img.present THEN img.naturalHeight ELSE 0 ]

\* EvaluateDimensions falling back for both dimensions when either is 0.
EvaluateDimensions_Jointly(img) ==
    IF img.present /\ img.naturalWidth # 0 /\ img.naturalHeight # 0
    THEN [width |-> img.naturalWidth, height |-> img.naturalHeight]
    ELSE [width |-> DefaultWidth, height |-> DefaultHeight]

EvaluateDimensions(img) ==
    [ width  |-> IF img.present /\ img.naturalWidth # 0
                 THEN img.naturalWidth ELSE DefaultWidth,
      height |-> IF img.present /\ img.naturalHeight # 0
                 THEN img.naturalHeight ELSE DefaultHeight ]

\* What the measurement page can hold after the data URL was loaded: no
\* image element, an image that did not decode (0 by 0), an image with one
\* natural dimension of 0, a decoded image.
ImgStates ==
    { [present |-> FALSE, naturalWidth |-> 0, naturalHeight |-> 0],
      [present |-> TRUE, naturalWidth |-> 0, naturalHeight |-> 0],
      [present |-> TRUE, naturalWidth |-> 0, naturalHeight |-> 50],
      [present |-> TRUE, naturalWidth |-> 400, naturalHeight |-> 300],
      [present |-> TRUE, naturalWidth |-> 50, naturalHeight |-> 0] }

(***************************************************************************)
(* What callers pass.                                                      *)
(***************************************************************************)
\* MockupOptions of Mockup.ts: page, frame, url and the screenshot options.
\* TypeScript admits only frame 'browser' and type 'png' | 'jpeg'; a caller
\* that casts (as the tests do with `as any`) passes anything.
ScreenshotChoices ==
    [k \in {"type", "path", "omitBackground"} |->
        CASE k = "type" -> {"png", "jpeg", "bmp"}
          [] k = "path" -> {"mockups/browser.png"}
          [] k = "omitBackground" -> BOOLEAN]

MockupOptions(p) ==
    { Spread([page |-> p, frame |-> f, url |-> u], o) :
        f \in {"browser", "invalid"}, u \in Urls,
        o \in ObjectsOver(DOMAIN ScreenshotChoices, ScreenshotChoices) }

\* MockupOptions of MockupFunction.ts: page, type, url, screenshotType and
\* the screenshot options.
FunctionChoices ==
    [k \in {"screenshotType", "fullPage"} |->
        CASE k = "screenshotType" -> {"png", "jpeg"}
          [] k = "fullPage" -> {TRUE}]

MockupFunctionOptions(p) ==
    { Spread([page |-> p, type |-> t, url |-> u], o) :
        t \in {"browser", "invalid"}, u \in Urls,
        o \in ObjectsOver(DOMAIN FunctionChoices, FunctionChoices) }

(***************************************************************************)
(* What the capability returns.                                            *)
(***************************************************************************)
\* page.screenshot(): an image in the requested format (PNG signature or
\* JPEG SOI marker), or a zero-byte image.
CaptureBytes(type) ==
    IF type = "jpeg" THEN { <<255, 216, 255>>, <<>> }
    ELSE { <<137, 80, 78, 71>>, <<>> }

\* A capture of more bytes than one call takes arguments.
LargeCapture(type) ==
    LET signature == IF type = "jpeg" THEN <<255, 216, 255>> ELSE <<137, 80, 78, 71>>
    IN  [i \in 1..(MaxSpreadArguments + 1) |->
            IF i <= Len(signature) THEN signature[i] ELSE 0]

\* The final capture: a PNG of the chrome.
FinalBytes == { <<137, 80, 78, 71, 1>>, <<137, 80, 78, 71, 2>> }

\* The error a capability call rejects with.
CapabilityError(op, page) ==
    [name |-> "Error", thrownBy |-> "capability", op |-> op, page |-> page]

\* UnsupportedTypeError with a message that does not interpolate the value.
UnsupportedTypeError_Unnamed(type) ==
    [name |-> "Error", thrownBy |-> "Mockup",
     message |-> << "Unsupported mockup type. Only 'browser' is currently supported." >>]

\* throw new Error(`Unsupported mockup type: ${options.type}. Only 'browser'
\* is currently supported.`)
UnsupportedTypeError(type) ==
    [name |-> "Error", thrownBy |-> "Mockup",
     message |-> << "Unsupported mockup type: ", type,
                    ". Only 'browser' is currently supported." >>]

\* String.fromCharCode(...originalScreenshot) given more arguments than the
\* engine takes: RangeError: Maximum call stack size exceeded
RangeError ==
    [name |-> "RangeError", thrownBy |-> "String.fromCharCode",
     message |-> << "Maximum call stack size exceeded" >>]

NoError == [name |-> "none"]

(***************************************************************************)
(* State.                                                                  *)
(***************************************************************************)
VARIABLES
    pc,                   \* where each caller's Mockup call stands
    impl,                 \* which Mockup was called: "Mockup" or "MockupFunction"
    args,                 \* the options object of the call
    screenshot,           \* const screenshot / originalScreenshot
    dataURL,              \* const dataURL / screenshotDataUrl
    screenshotDimensions, \* const screenshotDimensions
    measurePage,          \* const measurePage (0: not assigned)
    mockupPage,           \* const mockupPage (0: not assigned)
    pending,              \* how the try block ended, kept over the finally
    outcome,              \* the promise the caller holds
    calls,                \* the capability calls of the current call, in order
    console,              \* the console.log lines of the current call
    openAtCall,           \* open pages of the context when the call began
    pages,                \* the pages of the browser context
    files,                \* the files written, by path
    pom,                  \* the page object under test: className and url
    pomNew,               \* what its constructor was given
    pomCall,              \* per slot: a method called on it, with its arguments
    pomTrace,             \* per slot: log lines and capability calls of that
                          \* call so far, in order; a capability call that has
                          \* not settled has no ok yet
    pomOutcome,           \* per slot: the promise (or the return) of that call
    pomCounted,           \* the slots whose call is one of the first
                          \* MaxPomCalls made on the object
    pomCalls,             \* calls made on the object since its construction,
                          \* counted up to MaxPomCalls
    pomLines              \* lines the counted calls logged

callVars == << pc, impl, args, screenshot, dataURL, screenshotDimensions,
               measurePage, mockupPage, pending, outcome, calls, console,
               openAtCall >>
mockupVars == << pc, impl, args, screenshot, dataURL, screenshotDimensions,
                 measurePage, mockupPage, pending, outcome, calls, console,
                 openAtCall, pages, files >>
pomVars == << pom, pomNew, pomCall, pomTrace, pomOutcome, pomCounted, pomCalls,
             pomLines >>
vars == << pc, impl, args, screenshot, dataURL, screenshotDimensions,
           measurePage, mockupPage, pending, outcome, calls, console,
           openAtCall, pages, files, pom, pomNew, pomCall, pomTrace,
           pomOutcome, pomCounted, pomCalls, pomLines >>

ClosedPage == [open |-> FALSE, content |-> <<>>]
\* No page object constructed, no method called on it.
NoPom == [className |-> "none", url |-> Undefined]
NoCall == [method |-> "none"]
NoOutcome == [status |-> "none"]
\* The promise of an async method that has not settled.
Pending == [status |-> "pending"]
\* The method calls on the page object the state keeps: the calls that
\* have not settled, and the ones settled last.
PomSlots == {1, 2}
NoArgs == [page |-> 0]
NoDimensions == [width |-> 0, height |-> 0]
NothingPending == [type |-> "normal", value |-> <<>>, error |-> NoError]
Unsettled == [status |-> "pending", value |-> <<>>, error |-> NoError]

OpenPages == { id \in PageIds : pages[id].open }
OpenCount == Cardinality(OpenPages)
FreeIds == { id \in EphemeralIds : ~pages[id].open }
FreshId == CHOOSE id \in FreeIds : \A other \in FreeIds : id <= other

Init ==
    /\ pc = [p \in Invocations |-> "idle"]
    /\ impl = [p \in Invocations |-> "none"]
    /\ args = [p \in Invocations |-> NoArgs]
    /\ screenshot = [p \in Invocations |-> <<>>]
    /\ dataURL = [p \in Invocations |-> <<>>]
    /\ screenshotDimensions = [p \in Invocations |-> NoDimensions]
    /\ measurePage = [p \in Invocations |-> 0]
    /\ mockupPage = [p \in Invocations |-> 0]
    /\ pending = [p \in Invocations |-> NothingPending]
    /\ outcome = [p \in Invocations |-> Unsettled]
    /\ calls = [p \in Invocations |-> <<>>]
    /\ console = [p \in Invocations |-> <<>>]
    /\ openAtCall = [p \in Invocations |-> 0]
    /\ pages = [id \in PageIds |->
                  IF id \in Invocations
                  THEN [open |-> TRUE, content |-> SourceContent]
                  ELSE ClosedPage]
    /\ files = [f \in {} |-> <<>>]
    /\ pom = NoPom
    /\ pomNew = NoPom
    /\ pomCall = [s \in PomSlots |-> NoCall]
    /\ pomTrace = [s \in PomSlots |-> <<>>]
    /\ pomOutcome = [s \in PomSlots |-> NoOutcome]
    /\ pomCounted = {}
    /\ pomCalls = 0
    /\ pomLines = 0

(***************************************************************************)
(* Pieces every step is made of.                                           *)
(***************************************************************************)
Goto(p, label) == pc' = [pc EXCEPT ![p] = label]

\* The capability call op on page, with its arguments and its result.
Call(op, page, a, ok, result) ==
    [op |-> op, page |-> page, args |-> a, ok |-> ok, result |-> result]

\* page.context(), which never fails; newPage() is then a call on the
\* context (page 0), not on the page.
ContextOf(page) == Call("context", page, <<>>, TRUE, <<>>)

Invoke(p, made) == calls' = [calls EXCEPT ![p] = @ \o made]

Log(p, lines) == console' = [console EXCEPT ![p] = @ \o lines]

\* Rejects wrapping the exception in an error of the function's own.
Rejects_Wrapped(p, e) ==
    /\ outcome' = [outcome EXCEPT ![p] =
                     [status |-> "rejected", value |-> <<>>,
                      error |-> [name |-> "CompositionError", thrownBy |-> "Mockup",
                                 cause |-> e]]]
    /\ Goto(p, "settled")

\* An exception leaves the async function: its promise rejects with it.
Rejects(p, e) ==
    /\ outcome' = [outcome EXCEPT ![p] =
                     [status |-> "rejected", value |-> <<>>, error |-> e]]
    /\ Goto(p, "settled")

\* The async function returns v: its promise resolves with it.
Resolves(p, v) ==
    /\ outcome' = [outcome EXCEPT ![p] =
                     [status |-> "resolved", value |-> v, error |-> NoError]]
    /\ Goto(p, "settled")

\* The try block throws e / returns v; the finally block runs next.
Throws(p, e) ==
    pending' = [pending EXCEPT ![p] = [type |-> "throw", value |-> <<>>, error |-> e]]
Returns(p, v) ==
    pending' = [pending EXCEPT ![p] = [type |-> "return", value |-> v, error |-> NoError]]

\* page.context().newPage() resolving with page id.
Opened(id) == pages' = [pages EXCEPT ![id] = [open |-> TRUE, content |-> <<>>]]
\* page.setContent(html) resolving.
ContentSet(id, html) == pages' = [pages EXCEPT ![id].content = html]
\* page.close() resolving.
Closed(id) == pages' = [pages EXCEPT ![id] = ClosedPage]

(***************************************************************************)
(* The callers.                                                            *)
(***************************************************************************)
\* Each test runs in a browser context of its own: a call starts with the
\* source pages alone, and calls follow each other.
Quiet == /\ \A q \in Invocations : pc[q] = "idle"
         /\ OpenPages = Invocations

\* await Mockup(options), Mockup of Mockup.ts
CallMockup(p) ==
    /\ Quiet
    /\ \E o \in MockupOptions(p) :
         args' = [args EXCEPT ![p] = o]
    /\ impl' = [impl EXCEPT ![p] = "Mockup"]
    /\ openAtCall' = [openAtCall EXCEPT ![p] = OpenCount]
    /\ Goto(p, "screenshot")
    /\ UNCHANGED << screenshot, dataURL, screenshotDimensions, measurePage,
                    mockupPage, pending, outcome, calls, console, pages, files >>
    /\ UNCHANGED pomVars

\* The caller has seen the promise settle; the call's frame is gone.
Return(p) ==
    /\ pc[p] = "settled"
    /\ pc' = [pc EXCEPT ![p] = "idle"]
    /\ impl' = [impl EXCEPT ![p] = "none"]
    /\ args' = [args EXCEPT ![p] = NoArgs]
    /\ screenshot' = [screenshot EXCEPT ![p] = <<>>]
    /\ dataURL' = [dataURL EXCEPT ![p] = <<>>]
    /\ screenshotDimensions' = [screenshotDimensions EXCEPT ![p] = NoDimensions]
    /\ measurePage' = [measurePage EXCEPT ![p] = 0]
    /\ mockupPage' = [mockupPage EXCEPT ![p] = 0]
    /\ pending' = [pending EXCEPT ![p] = NothingPending]
    /\ outcome' = [outcome EXCEPT ![p] = Unsettled]
    /\ calls' = [calls EXCEPT ![p] = <<>>]
    /\ console' = [console EXCEPT ![p] = <<>>]
    /\ openAtCall' = [openAtCall EXCEPT ![p] = 0]
    /\ UNCHANGED << pages, files >>
    /\ UNCHANGED pomVars

\* The test ends: the runner closes the context's leftover pages.
Teardown ==
    /\ \A q \in Invocations : pc[q] = "idle"
    /\ OpenPages # Invocations
    /\ pages' = [id \in PageIds |-> IF id \in Invocations THEN pages[id] ELSE ClosedPage]
    /\ UNCHANGED << callVars, files >>
    /\ UNCHANGED pomVars

(***************************************************************************)
(* Mockup of src/src/Mockup.ts.                                            *)
(***************************************************************************)
\* { page, url, frame: _, path, type, ...options }: the rest object.
MockupRestOptions(o) == Rest(o, {"page", "url", "frame", "path", "type"})

\* SourceScreenshotOptions with path left among the rest options.
SourceScreenshotOptions_WithPath(o) ==
    Spread(Single("type", Get(o, "type")), Rest(o, {"page", "url", "frame", "type"}))

\* SourceScreenshotOptions without the rest options.
SourceScreenshotOptions_TypeOnly(o) == Single("type", Get(o, "type"))

\* screenshot(options) resolving with bytes: the files after it, the bytes
\* written to options.path when a path is given.
Written(fs, options, bytes) ==
    IF Get(options, "path") = Undefined THEN fs
    ELSE Spread(fs, Single(options.path, bytes))

\* page.screenshot({ type, ...options })
SourceScreenshotOptions(o) ==
    Spread(Single("type", Get(o, "type")), MockupRestOptions(o))

\* .locator('[aria-label="Browser Window"]')
BrowserWindowSelector == "[aria-label=\"Browser Window\"]"

\* FinalScreenshotOptions without the background omission.
FinalScreenshotOptions_WithBackground(path) ==
    [type |-> "png", path |-> path, omitBackground |-> FALSE]

\* .screenshot({ type: 'png', path, omitBackground: true })
FinalScreenshotOptions(path) ==
    [type |-> "png", path |-> path, omitBackground |-> TRUE]

\* Mockup_screenshot trying a failed capture a second time.
Mockup_screenshot_Retrying(p) ==
    /\ pc[p] = "screenshot"
    /\ LET page == args[p].page
           type == Get(args[p], "type")
           opts == SourceScreenshotOptions(args[p])
       IN  \/ /\ Invoke(p, << Call("screenshot", page, opts, FALSE, <<>>) >>)
              /\ IF calls[p] = <<>>
                 THEN UNCHANGED << pc, outcome >>
                 ELSE Rejects(p, CapabilityError("screenshot", page))
              /\ UNCHANGED << screenshot, dataURL, files >>
           \/ \E bytes \in CaptureBytes(type) :
              /\ Invoke(p, << Call("screenshot", page, opts, TRUE, bytes) >>)
              /\ screenshot' = [screenshot EXCEPT ![p] = bytes]
              /\ dataURL' = [dataURL EXCEPT ![p] = DataURL(type, bytes)]
              /\ files' = Written(files, opts, bytes)
              /\ Goto(p, "measure_newPage")
              /\ UNCHANGED outcome
    /\ UNCHANGED << impl, args, screenshotDimensions, measurePage, mockupPage,
                    pending, console, openAtCall, pages >>
    /\ UNCHANGED pomVars

\* const screenshot = await page.screenshot({ type, ...options });
\* const dataURL = `data:...;base64,${btoa(...)}`;
Mockup_screenshot(p) ==
    /\ pc[p] = "screenshot"
    /\ LET page == args[p].page
           type == Get(args[p], "type")
           opts == SourceScreenshotOptions(args[p])
       IN  \/ /\ Invoke(p, << Call("screenshot", page, opts, FALSE, <<>>) >>)
              /\ Rejects(p, CapabilityError("screenshot", page))
              /\ UNCHANGED << screenshot, dataURL, files >>
           \/ \E bytes \in CaptureBytes(type) :
              /\ Invoke(p, << Call("screenshot", page, opts, TRUE, bytes) >>)
              /\ screenshot' = [screenshot EXCEPT ![p] = bytes]
              /\ dataURL' = [dataURL EXCEPT ![p] = DataURL(type, bytes)]
              /\ files' = Written(files, opts, bytes)
              /\ Goto(p, "measure_newPage")
              /\ UNCHANGED outcome
    /\ UNCHANGED << impl, args, screenshotDimensions, measurePage, mockupPage,
                    pending, console, openAtCall, pages >>
    /\ UNCHANGED pomVars

\* getImageDimensions: const measurePage = await page.context().newPage();
getImageDimensions_newPage(p) ==
    /\ pc[p] = "measure_newPage"
    /\ LET page == args[p].page
       IN  \/ /\ Invoke(p, << ContextOf(page), Call("newPage", 0, <<>>, FALSE, 0) >>)
              /\ Rejects(p, CapabilityError("newPage", 0))
              /\ UNCHANGED << measurePage, pages >>
           \/ /\ FreeIds # {}
              /\ Invoke(p, << ContextOf(page), Call("newPage", 0, <<>>, TRUE, FreshId) >>)
              /\ measurePage' = [measurePage EXCEPT ![p] = FreshId]
              /\ Opened(FreshId)
              /\ Goto(p, "measure_setContent")
              /\ UNCHANGED outcome
    /\ UNCHANGED << impl, args, screenshot, dataURL, screenshotDimensions,
                    mockupPage, pending, console, openAtCall, files >>
    /\ UNCHANGED pomVars

\* getImageDimensions: await measurePage.setContent(`...<img src="${dataURL}">...`);
getImageDimensions_setContent(p) ==
    /\ pc[p] = "measure_setContent"
    /\ LET page == measurePage[p]
           html == MeasureHtml(dataURL[p])
       IN  \/ /\ Invoke(p, << Call("setContent", page, [html |-> html], FALSE, <<>>) >>)
              /\ Throws(p, CapabilityError("setContent", page))
              /\ Goto(p, "measure_close")
              /\ UNCHANGED pages
           \/ /\ Invoke(p, << Call("setContent", page, [html |-> html], TRUE, <<>>) >>)
              /\ ContentSet(page, html)
              /\ Goto(p, "measure_waitForLoadState")
              /\ UNCHANGED pending
    /\ UNCHANGED << impl, args, screenshot, dataURL, screenshotDimensions,
                    measurePage, mockupPage, outcome, console, openAtCall, files >>
    /\ UNCHANGED pomVars

\* getImageDimensions going on to evaluate without the load wait.
getImageDimensions_waitForLoadState_Skipped(p) ==
    /\ pc[p] = "measure_waitForLoadState"
    /\ Goto(p, "measure_evaluate")
    /\ UNCHANGED << impl, args, screenshot, dataURL, screenshotDimensions,
                    measurePage, mockupPage, pending, outcome, calls, console,
                    openAtCall, pages, files >>
    /\ UNCHANGED pomVars

\* getImageDimensions: await measurePage.waitForLoadState('networkidle');
getImageDimensions_waitForLoadState(p) ==
    /\ pc[p] = "measure_waitForLoadState"
    /\ LET page == measurePage[p]
       IN  \/ /\ Invoke(p, << Call("waitForLoadState", page, <<"networkidle">>, FALSE, <<>>) >>)
              /\ Throws(p, CapabilityError("waitForLoadState", page))
              /\ Goto(p, "measure_close")
           \/ /\ Invoke(p, << Call("waitForLoadState", page, <<"networkidle">>, TRUE, <<>>) >>)
              /\ Goto(p, "measure_evaluate")
              /\ UNCHANGED pending
    /\ UNCHANGED << impl, args, screenshot, dataURL, screenshotDimensions,
                    measurePage, mockupPage, outcome, console, openAtCall,
                    pages, files >>
    /\ UNCHANGED pomVars

\* getImageDimensions: const dimensions = await measurePage.evaluate(...);
\* return dimensions;
getImageDimensions_evaluate(p) ==
    /\ pc[p] = "measure_evaluate"
    /\ LET page == measurePage[p]
       IN  \/ /\ Invoke(p, << Call("evaluate", page, <<>>, FALSE, <<>>) >>)
              /\ Throws(p, CapabilityError("evaluate", page))
           \/ \E img \in ImgStates :
              /\ Invoke(p, << Call("evaluate", page, img, TRUE, EvaluateDimensions(img)) >>)
              /\ Returns(p, EvaluateDimensions(img))
    /\ Goto(p, "measure_close")
    /\ UNCHANGED << impl, args, screenshot, dataURL, screenshotDimensions,
                    measurePage, mockupPage, outcome, console, openAtCall,
                    pages, files >>
    /\ UNCHANGED pomVars

\* getImageDimensions leaving the measurement page open when it returns.
getImageDimensions_close_Unclosed(p) ==
    /\ pc[p] = "measure_close"
    /\ IF pending[p].type = "throw"
       THEN /\ Rejects(p, pending[p].error)
            /\ UNCHANGED << screenshotDimensions, pending >>
       ELSE /\ screenshotDimensions' =
                  [screenshotDimensions EXCEPT ![p] = pending[p].value]
            /\ pending' = [pending EXCEPT ![p] = NothingPending]
            /\ Goto(p, "newPage")
            /\ UNCHANGED outcome
    /\ UNCHANGED << impl, args, screenshot, dataURL, measurePage, mockupPage,
                    calls, pages, console, openAtCall, files >>
    /\ UNCHANGED pomVars

\* getImageDimensions catching what the measurement throws and returning the
\* default dimensions instead.
getImageDimensions_close_Swallowing(p) ==
    /\ pc[p] = "measure_close"
    /\ LET page == measurePage[p]
       IN  \/ /\ Invoke(p, << Call("close", page, <<>>, FALSE, <<>>) >>)
              /\ Rejects(p, CapabilityError("close", page))
              /\ UNCHANGED << pages, screenshotDimensions, pending >>
           \/ /\ Invoke(p, << Call("close", page, <<>>, TRUE, <<>>) >>)
              /\ Closed(page)
              /\ screenshotDimensions' =
                    [screenshotDimensions EXCEPT ![p] =
                        IF pending[p].type = "throw"
                        THEN [width |-> DefaultWidth, height |-> DefaultHeight]
                        ELSE pending[p].value]
              /\ pending' = [pending EXCEPT ![p] = NothingPending]
              /\ Goto(p, "newPage")
              /\ UNCHANGED outcome
    /\ UNCHANGED << impl, args, screenshot, dataURL, measurePage, mockupPage,
                    console, openAtCall, files >>
    /\ UNCHANGED pomVars

\* getImageDimensions: finally { await measurePage.close(); }, and back in
\* Mockup: const screenshotDimensions = await getImageDimensions(dataURL, page);
getImageDimensions_close(p) ==
    /\ pc[p] = "measure_close"
    /\ LET page == measurePage[p]
       IN  \/ /\ Invoke(p, << Call("close", page, <<>>, FALSE, <<>>) >>)
              /\ Rejects(p, CapabilityError("close", page))
              /\ UNCHANGED << pages, screenshotDimensions, pending >>
           \/ /\ Invoke(p, << Call("close", page, <<>>, TRUE, <<>>) >>)
              /\ Closed(page)
              /\ IF pending[p].type = "throw"
                 THEN /\ Rejects(p, pending[p].error)
                      /\ UNCHANGED << screenshotDimensions, pending >>
                 ELSE /\ screenshotDimensions' =
                            [screenshotDimensions EXCEPT ![p] = pending[p].value]
                      /\ pending' = [pending EXCEPT ![p] = NothingPending]
                      /\ Goto(p, "newPage")
                      /\ UNCHANGED outcome
    /\ UNCHANGED << impl, args, screenshot, dataURL, measurePage, mockupPage,
                    console, openAtCall, files >>
    /\ UNCHANGED pomVars

\* const mockupPage = await page.context().newPage();
Mockup_newPage(p) ==
    /\ pc[p] = "newPage"
    /\ LET page == args[p].page
       IN  \/ /\ Invoke(p, << ContextOf(page), Call("newPage", 0, <<>>, FALSE, 0) >>)
              /\ Rejects(p, CapabilityError("newPage", 0))
              /\ UNCHANGED << mockupPage, pages >>
           \/ /\ FreeIds # {}
              /\ Invoke(p, << ContextOf(page), Call("newPage", 0, <<>>, TRUE, FreshId) >>)
              /\ mockupPage' = [mockupPage EXCEPT ![p] = FreshId]
              /\ Opened(FreshId)
              /\ Goto(p, "setContent")
              /\ UNCHANGED outcome
    /\ UNCHANGED << impl, args, screenshot, dataURL, screenshotDimensions,
                    measurePage, pending, console, openAtCall, files >>
    /\ UNCHANGED pomVars

\* Mockup_setContent rendering the chrome into the source page itself.
Mockup_setContent_OnSourcePage(p) ==
    /\ pc[p] = "setContent"
    /\ LET page == args[p].page
           html == MountBrowserMockup(args[p].url, dataURL[p], screenshotDimensions[p])
           a == [html |-> html, waitUntil |-> "domcontentloaded"]
       IN  \/ /\ Invoke(p, << Call("setContent", page, a, FALSE, <<>>) >>)
              /\ Throws(p, CapabilityError("setContent", page))
              /\ Goto(p, "close")
              /\ UNCHANGED pages
           \/ /\ Invoke(p, << Call("setContent", page, a, TRUE, <<>>) >>)
              /\ ContentSet(page, html)
              /\ Goto(p, "locator_screenshot")
              /\ UNCHANGED pending
    /\ UNCHANGED << impl, args, screenshot, dataURL, screenshotDimensions,
                    measurePage, mockupPage, outcome, console, openAtCall, files >>
    /\ UNCHANGED pomVars

\* await mockupPage.setContent(MountBrowserMockup(url, dataURL,
\* screenshotDimensions), { waitUntil: 'domcontentloaded' });
Mockup_setContent(p) ==
    /\ pc[p] = "setContent"
    /\ LET page == mockupPage[p]
           html == MountBrowserMockup(args[p].url, dataURL[p], screenshotDimensions[p])
           a == [html |-> html, waitUntil |-> "domcontentloaded"]
       IN  \/ /\ Invoke(p, << Call("setContent", page, a, FALSE, <<>>) >>)
              /\ Throws(p, CapabilityError("setContent", page))
              /\ Goto(p, "close")
              /\ UNCHANGED pages
           \/ /\ Invoke(p, << Call("setContent", page, a, TRUE, <<>>) >>)
              /\ ContentSet(page, html)
              /\ Goto(p, "locator_screenshot")
              /\ UNCHANGED pending
    /\ UNCHANGED << impl, args, screenshot, dataURL, screenshotDimensions,
                    measurePage, mockupPage, outcome, console, openAtCall, files >>
    /\ UNCHANGED pomVars

\* return await mockupPage.locator('[aria-label="Browser Window"]')
\*     .screenshot({ type: 'png', path, omitBackground: true });
Mockup_locatorScreenshot(p) ==
    /\ pc[p] = "locator_screenshot"
    /\ LET page == mockupPage[p]
           path == Get(args[p], "path")
           a == [selector |-> BrowserWindowSelector,
                 options |-> FinalScreenshotOptions(path)]
       IN  \/ /\ Invoke(p, << Call("locator.screenshot", page, a, FALSE, <<>>) >>)
              /\ Throws(p, CapabilityError("locator.screenshot", page))
              /\ UNCHANGED files
           \/ \E bytes \in FinalBytes :
              /\ Invoke(p, << Call("locator.screenshot", page, a, TRUE, bytes) >>)
              /\ Returns(p, bytes)
              /\ files' = Written(files, a.options, bytes)
    /\ Goto(p, "close")
    /\ UNCHANGED << impl, args, screenshot, dataURL, screenshotDimensions,
                    measurePage, mockupPage, outcome, console, openAtCall, pages >>
    /\ UNCHANGED pomVars

\* Mockup_close without the finally: the page is closed on the success path
\* only.
Mockup_close_OnSuccessOnly(p) ==
    /\ pc[p] = "close"
    /\ LET page == mockupPage[p]
       IN  IF pending[p].type = "throw"
           THEN /\ Rejects(p, pending[p].error)
                /\ UNCHANGED << pages, calls >>
           ELSE \/ /\ Invoke(p, << Call("close", page, <<>>, FALSE, <<>>) >>)
                   /\ Rejects(p, CapabilityError("close", page))
                   /\ UNCHANGED pages
                \/ /\ Invoke(p, << Call("close", page, <<>>, TRUE, <<>>) >>)
                   /\ Closed(page)
                   /\ Resolves(p, pending[p].value)
    /\ UNCHANGED << impl, args, screenshot, dataURL, screenshotDimensions,
                    measurePage, mockupPage, pending, console, openAtCall, files >>
    /\ UNCHANGED pomVars

\* Mockup_close letting the outcome of the try block stand when close()
\* rejects.
Mockup_close_KeepsTryOutcome(p) ==
    /\ pc[p] = "close"
    /\ LET page == mockupPage[p]
       IN  /\ \/ /\ Invoke(p, << Call("close", page, <<>>, FALSE, <<>>) >>)
                 /\ UNCHANGED pages
              \/ /\ Invoke(p, << Call("close", page, <<>>, TRUE, <<>>) >>)
                 /\ Closed(page)
           /\ IF pending[p].type = "throw"
              THEN Rejects(p, pending[p].error)
              ELSE Resolves(p, pending[p].value)
    /\ UNCHANGED << impl, args, screenshot, dataURL, screenshotDimensions,
                    measurePage, mockupPage, pending, console, openAtCall, files >>
    /\ UNCHANGED pomVars

\* Mockup_close with the chrome page kept in a variable all calls share: the
\* page closed is the one the context opened last.
Mockup_close_LastOpened(p) ==
    /\ pc[p] = "close"
    /\ LET page == CHOOSE id \in OpenPages : \A other \in OpenPages : other <= id
       IN  \/ /\ Invoke(p, << Call("close", page, <<>>, FALSE, <<>>) >>)
              /\ Rejects(p, CapabilityError("close", page))
              /\ UNCHANGED pages
           \/ /\ Invoke(p, << Call("close", page, <<>>, TRUE, <<>>) >>)
              /\ Closed(page)
              /\ IF pending[p].type = "throw"
                 THEN Rejects(p, pending[p].error)
                 ELSE Resolves(p, pending[p].value)
    /\ UNCHANGED << impl, args, screenshot, dataURL, screenshotDimensions,
                    measurePage, mockupPage, pending, console, openAtCall, files >>
    /\ UNCHANGED pomVars

\* finally { await mockupPage.close(); }
Mockup_close(p) ==
    /\ pc[p] = "close"
    /\ LET page == mockupPage[p]
       IN  \/ /\ Invoke(p, << Call("close", page, <<>>, FALSE, <<>>) >>)
              /\ Rejects(p, CapabilityError("close", page))
              /\ UNCHANGED pages
           \/ /\ Invoke(p, << Call("close", page, <<>>, TRUE, <<>>) >>)
              /\ Closed(page)
              /\ IF pending[p].type = "throw"
                 THEN Rejects(p, pending[p].error)
                 ELSE Resolves(p, pending[p].value)
    /\ UNCHANGED << impl, args, screenshot, dataURL, screenshotDimensions,
                    measurePage, mockupPage, pending, console, openAtCall, files >>
    /\ UNCHANGED pomVars

(***************************************************************************)
(* Mockup of src/src/MockupFunction.ts.                                    *)
(***************************************************************************)
\* IsSupportedType with the check left out.
IsSupportedType_Unchecked(o) == TRUE

\* if (options.type !== 'browser') throw ...
IsSupportedType(o) == o.type = "browser"

\* const { page, url, type, screenshotType = 'png', ...screenshotOptions } = options;
ScreenshotTypeOf(o) ==
    IF Get(o, "screenshotType") = Undefined THEN "png" ELSE o.screenshotType

\* page.screenshot({ type: screenshotType, ...screenshotOptions })
OriginalScreenshotOptions(o) ==
    Spread(Single("type", ScreenshotTypeOf(o)),
           Rest(o, {"page", "url", "type", "screenshotType"}))

\* mockupPage.screenshot({ type: 'png', fullPage: true })
MockupScreenshotOptions == [type |-> "png", fullPage |-> TRUE]

\* await Mockup(options), Mockup of MockupFunction.ts
CallMockupFunction(p) ==
    /\ Quiet
    /\ \E o \in MockupFunctionOptions(p) :
         args' = [args EXCEPT ![p] = o]
    /\ impl' = [impl EXCEPT ![p] = "MockupFunction"]
    /\ openAtCall' = [openAtCall EXCEPT ![p] = OpenCount]
    /\ Goto(p, "fn_validate")
    /\ UNCHANGED << screenshot, dataURL, screenshotDimensions, measurePage,
                    mockupPage, pending, outcome, calls, console, pages, files >>
    /\ UNCHANGED pomVars

\* console.log(`[Mockup] Creating ...`); if (options.type !== 'browser') throw ...
\* console.log('[Mockup] Taking screenshot of current page'), and
\* page.screenshot is awaited.
MockupFunction_validate(p) ==
    /\ pc[p] = "fn_validate"
    /\ IF IsSupportedType(args[p])
       THEN /\ Log(p, << << "[Mockup] Creating ", args[p].type, " mockup for URL: ",
                            args[p].url >>,
                         << "[Mockup] Taking screenshot of current page" >> >>)
            /\ Goto(p, "fn_screenshot")
            /\ UNCHANGED outcome
       ELSE /\ Log(p, << << "[Mockup] Creating ", args[p].type, " mockup for URL: ",
                            args[p].url >> >>)
            /\ Rejects(p, UnsupportedTypeError(args[p].type))
    /\ UNCHANGED << impl, args, screenshot, dataURL, screenshotDimensions,
                    measurePage, mockupPage, pending, calls, openAtCall,
                    pages, files >>
    /\ UNCHANGED pomVars

\* page.screenshot({...}) settles: const originalScreenshot = its bytes;
\* btoa(String.fromCharCode(...originalScreenshot)), which throws when the
\* bytes are more than one call takes arguments;
\* const screenshotDataUrl = `data:${mimeType};base64,${screenshotBase64}`;
\* console.log('[Mockup] Creating new page for mockup'), and newPage() is
\* awaited.
MockupFunction_screenshot(p) ==
    /\ pc[p] = "fn_screenshot"
    /\ LET page == args[p].page
           type == ScreenshotTypeOf(args[p])
           opts == OriginalScreenshotOptions(args[p])
       IN  \/ /\ Invoke(p, << Call("screenshot", page, opts, FALSE, <<>>) >>)
              /\ Rejects(p, CapabilityError("screenshot", page))
              /\ UNCHANGED << screenshot, dataURL, files, console >>
           \/ \E bytes \in CaptureBytes(type) \cup { LargeCapture(type) } :
              /\ Invoke(p, << Call("screenshot", page, opts, TRUE, bytes) >>)
              /\ screenshot' = [screenshot EXCEPT ![p] = bytes]
              /\ files' = Written(files, opts, bytes)
              /\ IF Len(bytes) > MaxSpreadArguments
                 THEN /\ Rejects(p, RangeError)
                      /\ UNCHANGED << dataURL, console >>
                 ELSE /\ dataURL' = [dataURL EXCEPT ![p] = DataURL(type, bytes)]
                      /\ Log(p, << << "[Mockup] Creating new page for mockup" >> >>)
                      /\ Goto(p, "fn_newPage")
                      /\ UNCHANGED outcome
    /\ UNCHANGED << impl, args, screenshotDimensions, measurePage, mockupPage,
                    pending, openAtCall, pages >>
    /\ UNCHANGED pomVars

\* const mockupPage = await page.context().newPage();
MockupFunction_newPage(p) ==
    /\ pc[p] = "fn_newPage"
    /\ LET page == args[p].page
       IN  \/ /\ Invoke(p, << ContextOf(page), Call("newPage", 0, <<>>, FALSE, 0) >>)
              /\ Rejects(p, CapabilityError("newPage", 0))
              /\ UNCHANGED << mockupPage, pages >>
           \/ /\ FreeIds # {}
              /\ Invoke(p, << ContextOf(page), Call("newPage", 0, <<>>, TRUE, FreshId) >>)
              /\ mockupPage' = [mockupPage EXCEPT ![p] = FreshId]
              /\ Opened(FreshId)
              /\ Goto(p, "fn_setContent")
              /\ UNCHANGED outcome
    /\ UNCHANGED << impl, args, screenshot, dataURL, screenshotDimensions,
                    measurePage, pending, console, openAtCall, files >>
    /\ UNCHANGED pomVars

\* mockupPage.setContent(mockupHtml, { waitUntil: 'domcontentloaded' })
\* settles; console.log('[Mockup] Taking final mockup screenshot'), and
\* mockupPage.screenshot is awaited.
MockupFunction_setContent(p) ==
    /\ pc[p] = "fn_setContent"
    /\ LET page == mockupPage[p]
           html == generateBrowserMockupHtml(args[p].url, dataURL[p])
           a == [html |-> html, waitUntil |-> "domcontentloaded"]
       IN  \/ /\ Invoke(p, << Call("setContent", page, a, FALSE, <<>>) >>)
              /\ Throws(p, CapabilityError("setContent", page))
              /\ Goto(p, "fn_close")
              /\ UNCHANGED << pages, console >>
           \/ /\ Invoke(p, << Call("setContent", page, a, TRUE, <<>>) >>)
              /\ ContentSet(page, html)
              /\ Log(p, << << "[Mockup] Taking final mockup screenshot" >> >>)
              /\ Goto(p, "fn_mockupScreenshot")
              /\ UNCHANGED pending
    /\ UNCHANGED << impl, args, screenshot, dataURL, screenshotDimensions,
                    measurePage, mockupPage, outcome, openAtCall, files >>
    /\ UNCHANGED pomVars

\* const mockupScreenshot = await mockupPage.screenshot({ type: 'png',
\* fullPage: true }); return mockupScreenshot;
MockupFunction_mockupScreenshot(p) ==
    /\ pc[p] = "fn_mockupScreenshot"
    /\ LET page == mockupPage[p]
       IN  \/ /\ Invoke(p, << Call("screenshot", page, MockupScreenshotOptions, FALSE, <<>>) >>)
              /\ Throws(p, CapabilityError("screenshot", page))
           \/ \E bytes \in FinalBytes :
              /\ Invoke(p, << Call("screenshot", page, MockupScreenshotOptions, TRUE, bytes) >>)
              /\ Returns(p, bytes)
    /\ Goto(p, "fn_close")
    /\ UNCHANGED << impl, args, screenshot, dataURL, screenshotDimensions,
                    measurePage, mockupPage, outcome, console, openAtCall, pages,
                    files >>
    /\ UNCHANGED pomVars

\* finally { await mockupPage.close(); console.log('[Mockup] Mockup page closed'); }
MockupFunction_close(p) ==
    /\ pc[p] = "fn_close"
    /\ LET page == mockupPage[p]
       IN  \/ /\ Invoke(p, << Call("close", page, <<>>, FALSE, <<>>) >>)
              /\ Rejects(p, CapabilityError("close", page))
              /\ UNCHANGED << pages, console >>
           \/ /\ Invoke(p, << Call("close", page, <<>>, TRUE, <<>>) >>)
              /\ Closed(page)
              /\ Log(p, << << "[Mockup] Mockup page closed" >> >>)
              /\ IF pending[p].type = "throw"
                 THEN Rejects(p, pending[p].error)
                 ELSE Resolves(p, pending[p].value)
    /\ UNCHANGED << impl, args, screenshot, dataURL, screenshotDimensions,
                    measurePage, mockupPage, pending, openAtCall, files >>
    /\ UNCHANGED pomVars

(***************************************************************************)
(* The specification: callers call one after the other.                    *)
(***************************************************************************)
Next ==
    \/ \E p \in Invocations : CallMockup(p)
    \/ \E p \in Invocations : Mockup_screenshot(p)
    \/ \E p \in Invocations : getImageDimensions_newPage(p)
    \/ \E p \in Invocations : getImageDimensions_setContent(p)
    \/ \E p \in Invocations : getImageDimensions_waitForLoadState(p)
    \/ \E p \in Invocations : getImageDimensions_evaluate(p)
    \/ \E p \in Invocations : getImageDimensions_close(p)
    \/ \E p \in Invocations : Mockup_newPage(p)
    \/ \E p \in Invocations : Mockup_setContent(p)
    \/ \E p \in Invocations : Mockup_locatorScreenshot(p)
    \/ \E p \in Invocations : Mockup_close(p)
    \/ \E p \in Invocations : CallMockupFunction(p)
    \/ \E p \in Invocations : MockupFunction_validate(p)
    \/ \E p \in Invocations : MockupFunction_screenshot(p)
    \/ \E p \in Invocations : MockupFunction_newPage(p)
    \/ \E p \in Invocations : MockupFunction_setContent(p)
    \/ \E p \in Invocations : MockupFunction_mockupScreenshot(p)
    \/ \E p \in Invocations : MockupFunction_close(p)
    \/ \E p \in Invocations : Return(p)
    \/ Teardown

Spec == Init /\ [][Next]_vars

(***************************************************************************)
(* Properties.                                                             *)
(***************************************************************************)
Settled(p) == pc[p] = "settled"
Rejected(p) == Settled(p) /\ outcome[p].status = "rejected"
Resolved(p) == Settled(p) /\ outcome[p].status = "resolved"

\* The positions, in the call log of p, of the calls of op.
CallsOf(p, op) == { i \in DOMAIN calls[p] : calls[p][i].op = op }
FailedCalls(p) == { i \in DOMAIN calls[p] : ~calls[p][i].ok }
CloseFailed(p) == \E i \in CallsOf(p, "close") : ~calls[p][i].ok

\* The pages the call of p opened itself.
OpenedBy(p) == { calls[p][i].result : i \in { j \in CallsOf(p, "newPage") : calls[p][j].ok } }

\* C1: after any Mockup call (of Mockup.ts or of MockupFunction.ts), resolved
\* or rejected and whichever step failed, the context holds as many open
\* pages as before the call, provided no page.close() of the call failed.
C1_OpenPagesRestored ==
    \A p \in Invocations :
        (Settled(p) /\ ~CloseFailed(p)) => OpenCount = openAtCall[p]

\* A call that opened its chrome page, failed afterwards, and rejected with
\* every close succeeding.
C1_Witness ==
    \E p \in Invocations :
        /\ Rejected(p)
        /\ OpenedBy(p) # {}
        /\ \E i \in FailedCalls(p) : calls[p][i].op \in {"locator.screenshot", "setContent"}
        /\ ~CloseFailed(p)
        /\ OpenCount = openAtCall[p]

\* C2: during and after any Mockup call the source page's title and content
\* are what they were before it; on the source page Mockup calls only
\* screenshot() and context(); setContent, waitForLoadState, evaluate, close
\* and the final capture go to pages the call opened itself.
C2_SourcePageUnchanged ==
    \A p \in Invocations :
        pc[p] # "idle" =>
            /\ pages[args[p].page].open
            /\ pages[args[p].page].content = SourceContent
            /\ PageTitle(pages[args[p].page].content) = "Test Page"
            /\ \A i \in DOMAIN calls[p] :
                 LET c == calls[p][i]
                 IN  /\ c.page = args[p].page => c.op \in {"screenshot", "context"}
                     /\ c.op \in {"setContent", "waitForLoadState", "evaluate",
                                  "close", "locator.screenshot"}
                          => c.page \in OpenedBy(p)

\* A resolved call that set the content of a page of its own.
C2_Witness ==
    \E p \in Invocations :
        /\ Resolved(p)
        /\ \E i \in CallsOf(p, "setContent") :
             calls[p][i].ok /\ calls[p][i].page # args[p].page
        /\ pages[args[p].page].content = SourceContent

\* C3: Mockup of MockupFunction.ts called with options.type other than
\* 'browser' rejects before any capability call: no page.screenshot and no
\* page.context().newPage() is ever made.
C3_FunctionRejectsBeforeCapability ==
    \A p \in Invocations :
        (impl[p] = "MockupFunction" /\ args[p].type # "browser"
            /\ pc[p] # "fn_validate") =>
            /\ Rejected(p)
            /\ calls[p] = <<>>

\* A call of MockupFunction.ts's Mockup with type 'invalid' that has settled.
C3_Witness ==
    \E p \in Invocations :
        /\ impl[p] = "MockupFunction"
        /\ args[p].type = "invalid"
        /\ Rejected(p)
        /\ CallsOf(p, "screenshot") = {}
        /\ CallsOf(p, "newPage") = {}

\* The calls of p that render the chrome template (setContent with the
\* domcontentloaded wait policy).
ChromeRenders(p) ==
    { i \in CallsOf(p, "setContent") : "waitUntil" \in DOMAIN calls[p][i].args }

\* A discriminator value Mockup.ts's types do not admit.
UnsupportedDiscriminator(o) ==
    \/ o.frame # "browser"
    \/ Get(o, "type") \notin {"png", "jpeg", Undefined}

\* C4: Mockup of Mockup.ts called with an unsupported discriminator (a frame
\* other than 'browser', a type other than 'png'/'jpeg') makes no
\* page.screenshot call and rejects.
C4_MockupRejectsBeforeCapture ==
    \A p \in Invocations :
        (impl[p] = "Mockup" /\ UnsupportedDiscriminator(args[p])) =>
            /\ CallsOf(p, "screenshot") = {}
            /\ Settled(p) => outcome[p].status = "rejected"

\* The error of a rejection that Mockup's own validation raised.
ValidationRejected(p) ==
    /\ Rejected(p)
    /\ outcome[p].error.thrownBy = "Mockup"

\* C5 as stated: a rejection for an unsupported discriminator value v carries
\* an UnsupportedFormatError whose message names v.
C5_UnsupportedFormatErrorNamesValue ==
    \A p \in Invocations :
        ValidationRejected(p) =>
            /\ outcome[p].error.name = "UnsupportedFormatError"
            /\ \E i \in DOMAIN outcome[p].error.message :
                 outcome[p].error.message[i] = args[p].type

\* C5, amended: when Mockup of MockupFunction.ts rejects because options.type
\* v is not 'browser', the error is a plain Error whose message is
\* "Unsupported mockup type: v. Only 'browser' is currently supported.".
C5_ErrorNamesValue ==
    \A p \in Invocations :
        (impl[p] = "MockupFunction" /\ args[p].type # "browser" /\ Rejected(p)) =>
            /\ outcome[p].error.name = "Error"
            /\ outcome[p].error.message =
                 << "Unsupported mockup type: ", args[p].type,
                    ". Only 'browser' is currently supported." >>

\* A call with type 'invalid' rejected with the message naming 'invalid'.
C5_Witness ==
    \E p \in Invocations :
        /\ ValidationRejected(p)
        /\ args[p].type = "invalid"
        /\ outcome[p].error.message[2] = "invalid"

\* The HTML-escaped form of a url, character by character.
EscapeChar(c) ==
    CASE c = "<" -> << "&", "l", "t", ";" >>
      [] c = ">" -> << "&", "g", "t", ";" >>
      [] c = "&" -> << "&", "a", "m", "p", ";" >>
      [] c = "\"" -> << "&", "q", "u", "o", "t", ";" >>
      [] OTHER -> << c >>

RECURSIVE EscapeHtml(_)
EscapeHtml(url) ==
    IF url = <<>> THEN <<>> ELSE EscapeChar(Head(url)) \o EscapeHtml(Tail(url))

\* C6: the HTML Mockup passes to setContent for the chrome surface holds, in
\* the Address Bar element, the HTML-escaped form of url.
C6_AddressBarEscaped ==
    \A p \in Invocations :
        \A i \in ChromeRenders(p) :
            calls[p][i].args.html[IF impl[p] = "Mockup" THEN AddressBarAt
                                  ELSE FunctionAddressBarAt]
                = EscapeHtml(args[p].url)

\* C7: in Mockup of Mockup.ts the final capture is of the element
\* [aria-label="Browser Window"] of the chrome page, with type 'png' and
\* omitBackground true whatever the caller passed, no other capture is taken
\* of a page the call opened, and the call resolves with that capture's bytes.
C7_FinalCaptureIsPngOfBrowserWindow ==
    \A p \in Invocations :
        impl[p] = "Mockup" =>
            /\ \A i \in CallsOf(p, "locator.screenshot") :
                 /\ calls[p][i].page = mockupPage[p]
                 /\ calls[p][i].args.selector = "[aria-label=\"Browser Window\"]"
                 /\ calls[p][i].args.options.type = "png"
                 /\ calls[p][i].args.options.omitBackground = TRUE
            /\ \A i \in CallsOf(p, "screenshot") : calls[p][i].page = args[p].page
            /\ Resolved(p) =>
                 /\ Cardinality(CallsOf(p, "locator.screenshot")) = 1
                 /\ \E i \in CallsOf(p, "locator.screenshot") :
                      calls[p][i].ok /\ outcome[p].value = calls[p][i].result

\* A resolved call whose caller asked for a jpeg with the background kept.
C7_Witness ==
    \E p \in Invocations :
        /\ impl[p] = "Mockup"
        /\ Resolved(p)
        /\ Get(args[p], "type") = "jpeg"
        /\ "omitBackground" \in DOMAIN args[p]
        /\ args[p].omitBackground = FALSE
        /\ \E i \in CallsOf(p, "locator.screenshot") :
             /\ calls[p][i].args.options.type = "png"
             /\ outcome[p].value = calls[p][i].result
             /\ outcome[p].value # screenshot[p]

\* C8: in Mockup of Mockup.ts, with (w, h) the pair the measurement returned,
\* the chrome template sets the container width to w + 2 and the image to w
\* by h; the measurement is made once per call.
C8_ContainerIsWidthPlusTwo ==
    \A p \in Invocations :
        impl[p] = "Mockup" =>
            /\ Cardinality(CallsOf(p, "evaluate")) <= 1
            /\ \A i \in ChromeRenders(p) :
                 /\ Cardinality(CallsOf(p, "evaluate")) = 1
                 /\ \A j \in CallsOf(p, "evaluate") :
                      LET d == calls[p][j].result
                          html == calls[p][i].args.html
                      IN  /\ calls[p][j].ok
                          /\ j < i
                          /\ html[ContainerWidthAt] = Digits(d.width + 2)
                          /\ html[ImageWidthAt] = Digits(d.width)
                          /\ html[ImageHeightAt] = Digits(d.height)

\* The 400 by 300 scenario: container 402, image 400 by 300.
C8_Witness ==
    \E p \in Invocations :
        /\ impl[p] = "Mockup"
        /\ \E j \in CallsOf(p, "evaluate") :
             /\ calls[p][j].ok
             /\ calls[p][j].args.naturalWidth = 400
             /\ calls[p][j].args.naturalHeight = 300
        /\ \E i \in ChromeRenders(p) :
             /\ calls[p][i].args.html[ContainerWidthAt] = << 4, 0, 2 >>
             /\ calls[p][i].args.html[ImageWidthAt] = << 4, 0, 0 >>
             /\ calls[p][i].args.html[ImageHeightAt] = << 3, 0, 0 >>

\* The measurement of p found no readable dimensions: no image element, or
\* an image of natural width and height 0.
Unmeasurable(p) ==
    \E j \in CallsOf(p, "evaluate") :
        /\ calls[p][j].ok
        /\ \/ ~calls[p][j].args.present
           \/ /\ calls[p][j].args.naturalWidth = 0
              /\ calls[p][j].args.naturalHeight = 0

\* C9: in Mockup of Mockup.ts, when the dimensions cannot be determined the
\* call does not fail for it: the measurement returns 800 by 600, the chrome
\* is rendered with them, and the call rejects only if a capability call
\* of its own (close, newPage, setContent, the final capture) rejects.
C9_FallbackToDefaultDimensions ==
    \A p \in Invocations :
        (impl[p] = "Mockup" /\ Unmeasurable(p)) =>
            /\ pc[p] = "measure_close" =>
                 /\ pending[p].type = "return"
                 /\ pending[p].value = [width |-> 800, height |-> 600]
            /\ pc[p] \in {"newPage", "setContent", "locator_screenshot", "close"} =>
                 screenshotDimensions[p] = [width |-> 800, height |-> 600]
            /\ \A i \in ChromeRenders(p) :
                 /\ calls[p][i].args.html[ImageWidthAt] = << 8, 0, 0 >>
                 /\ calls[p][i].args.html[ImageHeightAt] = << 6, 0, 0 >>
            /\ Rejected(p) =>
                 \E i \in FailedCalls(p) :
                     /\ calls[p][i].op \in {"close", "newPage", "setContent",
                                            "locator.screenshot"}
                     /\ outcome[p].error = CapabilityError(calls[p][i].op, calls[p][i].page)

\* A call whose image did not decode and which took the final capture and
\* resolved.
C9_Witness ==
    \E p \in Invocations :
        /\ impl[p] = "Mockup"
        /\ Unmeasurable(p)
        /\ Resolved(p)
        /\ \E i \in CallsOf(p, "locator.screenshot") : calls[p][i].ok
        /\ \E i \in ChromeRenders(p) :
             calls[p][i].args.html[ContainerWidthAt] = << 8, 0, 2 >>

\* C10 as stated: every capability failure during a Mockup call reaches the
\* caller as a CompositionError.
C10_FailuresWrappedInCompositionError ==
    \A p \in Invocations :
        (Settled(p) /\ FailedCalls(p) # {}) =>
            /\ outcome[p].status = "rejected"
            /\ outcome[p].error.name = "CompositionError"

\* C10, amended: every capability failure during a Mockup call reaches the
\* caller as the capability's own error, unwrapped: the error of the step
\* that failed or, when close() in the finally block rejects as well, the
\* error of that close().
C10_FailuresPropagateUnwrapped ==
    \A p \in Invocations :
        (Settled(p) /\ FailedCalls(p) # {}) =>
            LET last == CHOOSE i \in FailedCalls(p) : \A j \in FailedCalls(p) : j <= i
            IN  /\ outcome[p].status = "rejected"
                /\ outcome[p].error = CapabilityError(calls[p][last].op, calls[p][last].page)
                /\ Cardinality(FailedCalls(p)) > 1 => calls[p][last].op = "close"

\* A call whose final capture failed and whose caller got that error.
C10_Witness ==
    \E p \in Invocations :
        /\ Rejected(p)
        /\ \E i \in FailedCalls(p) :
             /\ calls[p][i].op \in {"locator.screenshot", "screenshot"}
             /\ calls[p][i].page # args[p].page
             /\ outcome[p].error = CapabilityError(calls[p][i].op, calls[p][i].page)

(***************************************************************************)
(* ComponentObjectModel of src/src/ComponentObjectModel.ts and             *)
(* PageObjectModel of src/src/PageObjectModel.ts.  A method call is one    *)
(* step: its log lines and its capability calls are written to pomTrace in *)
(* the order the method makes them.                                        *)
(***************************************************************************)
\* Number of method calls on one page object that are counted, with their
\* lines; the calls after them are made and not counted.
MaxPomCalls == 6

\* The concrete classes of src/examples.
PomClasses == {"ExampleComponentPom", "ExamplePagePom"}
PomUrls == {"/home", "data:text/html,<button>Test Button</button>"}

\* The locators a caller holds: toString() gives 'Locator@...', some other
\* text, or throws.
Locators ==
    { [selector |-> "button", text |-> << "Locator@", "button" >>, throws |-> FALSE],
      [selector |-> "input", text |-> << "locator('", "input", "')" >>, throws |-> FALSE],
      [selector |-> "select", text |-> <<>>, throws |-> TRUE] }

\* text: string | RegExp
Texts == { [kind |-> "string", source |-> "Hello"],
           [kind |-> "regexp", source |-> "H.*"] }

EmptyObject == [x \in {} |-> 0]

\* The options argument of a call c, for a spread: ...undefined adds nothing.
Opt(c) == IF "options" \in DOMAIN c THEN c.options ELSE EmptyObject

\* The arguments of c handed on as they are (an absent one stays absent).
Forward(c, keys) == [k \in (DOMAIN c) \cap keys |-> c[k]]

\* A call with its options argument absent, or one of the given objects.
WithOptions(c, objects) == {c} \cup { Spread(c, Single("options", o)) : o \in objects }

ClickChoices ==
    [k \in {"force", "timeout"} |->
        CASE k = "force" -> BOOLEAN
          [] k = "timeout" -> {1000}]
WaitChoices ==
    [k \in {"state", "timeout"} |->
        CASE k = "state" -> {"visible", "hidden"}
          [] k = "timeout" -> {1000}]
TimeoutOptions == { [timeout |-> 1000] }

\* s.replace(what, ''): s without the first piece equal to what.
RECURSIVE Replace(_, _)
Replace(s, what) ==
    IF s = <<>> THEN <<>>
    ELSE IF Head(s) = what THEN Tail(s)
    ELSE << Head(s) >> \o Replace(Tail(s), what)

\* JSON.stringify(o): the JSON text of o.
JsonStringify(o) == << "JSON", o >>

\* typeof text === 'string' ? `"${text}"` : text.toString()
TextLiteral(text) ==
    IF text.kind = "string" THEN << "\"", text.source, "\"" >>
    ELSE << "/", text.source, "/" >>

\* log naming the base class instead of this.className.
log_BaseClass(className, action) ==
    [kind |-> "log", line |-> << "[POM: ", "ComponentObjectModel", "] ", action >>]

\* protected log(action): console.log(`[POM: ${this.className}] ${action}`)
log(className, action) ==
    [kind |-> "log", line |-> << "[POM: ", className, "] ", action >>]

\* getLocatorDescription without the try/catch: the exception of toString()
\* leaves the method.
getLocatorDescription_NoCatch(loc) ==
    IF loc.throws THEN [threw |-> TRUE, value |-> <<>>]
    ELSE [threw |-> FALSE, value |-> Replace(loc.text, "Locator@")]

\* private async getLocatorDescription(locator): never throws.
getLocatorDescription(loc) ==
    IF loc.throws THEN [threw |-> FALSE, value |-> << "element" >>]
    ELSE [threw |-> FALSE, value |-> Replace(loc.text, "Locator@")]

\* A capability call the method makes, and how it ended.
Delegated(target, op, a, ok) ==
    [kind |-> "call", target |-> target, op |-> op, args |-> a, ok |-> ok]

\* Delegate with the call made first and the lines logged after it returned.
Delegate_CallFirst(before, target, op, a, ok) ==
    [events |-> << Delegated(target, op, a, ok) >> \o (IF ok THEN before ELSE <<>>),
     outcome |-> IF ok THEN [status |-> "resolved"]
                 ELSE [status |-> "rejected", error |-> CapabilityError(op, 0)]]

\* Delegate inside a try with an empty catch: the method returns normally
\* when the call throws.
Delegate_Swallowing(before, target, op, a, ok) ==
    [events |-> before \o << Delegated(target, op, a, ok) >>,
     outcome |-> [status |-> "resolved"]]

\* return <capability call>, or await it: the lines logged before it, the
\* call, and the method ending as the call ends.
Delegate(before, target, op, a, ok) ==
    [events |-> before \o << Delegated(target, op, a, ok) >>,
     outcome |-> IF ok THEN [status |-> "resolved"]
                 ELSE [status |-> "rejected", error |-> CapabilityError(op, 0)]]

\* An exception leaves the method before it logged or called anything.
Escapes(op) ==
    [events |-> <<>>,
     outcome |-> [status |-> "rejected", error |-> CapabilityError(op, 0)]]

\* The part of a locator method before its capability call:
\* this.log(`${name}(${await this.getLocatorDescription(locator)}${rest})`)
Described(className, name, loc, rest) ==
    << log(className, << name, "(", getLocatorDescription(loc).value >> \o rest \o << ")" >>) >>

(***************************************************************************)
(* The methods: what a call c on an object of class className logs and     *)
(* calls, ok being whether the capability call succeeds.                   *)
(***************************************************************************)
\* protected locator(selector, options?)
locatorMethod(className, c, ok) ==
    Delegate(<< log(className,
                    << "locator(\"", c.selector, "\"" >>
                    \o (IF "options" \in DOMAIN c
                        THEN << ", ", JsonStringify(c.options) >> ELSE <<>>)
                    \o << ")" >>) >>,
             "page", "locator", Forward(c, {"selector", "options"}), ok)

\* $error asking the page itself, without a line of locator().
errorGetter_OneLine(className, c, ok) ==
    Delegate(<< log(className, << "$error" >>) >>,
             "page", "locator", [selector |-> "[aria-invalid=\"true\"]"], ok)

\* get $error(): this.log('$error'); return this.locator('[aria-invalid="true"]');
errorGetter(className, c, ok) ==
    LET inner == locatorMethod(className,
                               [method |-> "locator", selector |-> "[aria-invalid=\"true\"]"], ok)
    IN  [events |-> << log(className, << "$error" >>) >> \o inner.events,
         outcome |-> inner.outcome]

\* protected getByText(text, options?)
getByText(className, c, ok) ==
    Delegate(<< log(className, << "getByText(" >> \o TextLiteral(c.text) \o << ")" >>) >>,
             "page", "getByText", Forward(c, {"text", "options"}), ok)

\* protected getByRole(role, options?)
getByRole(className, c, ok) ==
    Delegate(<< log(className, << "getByRole(\"", c.role, "\")" >>) >>,
             "page", "getByRole", Forward(c, {"role", "options"}), ok)

\* protected getByTestId(testId)
getByTestId(className, c, ok) ==
    Delegate(<< log(className, << "getByTestId(" >> \o TextLiteral(c.text) \o << ")" >>) >>,
             "page", "getByTestId", Forward(c, {"text"}), ok)

\* protected getByLabel(text, options?)
getByLabel(className, c, ok) ==
    Delegate(<< log(className, << "getByLabel(" >> \o TextLiteral(c.text) \o << ")" >>) >>,
             "page", "getByLabel", Forward(c, {"text", "options"}), ok)

\* protected getByPlaceholder(text, options?)
getByPlaceholder(className, c, ok) ==
    Delegate(<< log(className, << "getByPlaceholder(" >> \o TextLiteral(c.text) \o << ")" >>) >>,
             "page", "getByPlaceholder", Forward(c, {"text", "options"}), ok)

\* protected getByAltText(text, options?)
getByAltText(className, c, ok) ==
    Delegate(<< log(className, << "getByAltText(" >> \o TextLiteral(c.text) \o << ")" >>) >>,
             "page", "getByAltText", Forward(c, {"text", "options"}), ok)

\* protected async press(key, options?)
press(className, c, ok) ==
    Delegate(<< log(className, << "press(\"", c.key, "\")" >>) >>,
             "keyboard", "press", Forward(c, {"key", "options"}), ok)

\* protected async click(locator, options?):
\* await locator.click({ ...options, force: true });
click(className, c, ok) ==
    IF getLocatorDescription(c.locator).threw THEN Escapes("toString")
    ELSE Delegate(Described(className, "click", c.locator, <<>>),
                  c.locator.selector, "click",
                  [options |-> Spread(Opt(c), [force |-> TRUE])], ok)

\* waitUntilVisible spreading the options first, as click does:
\* locator.waitFor({ ...options, state: 'visible' })
waitUntilVisible_StateLast(className, c, ok) ==
    IF getLocatorDescription(c.locator).threw THEN Escapes("toString")
    ELSE Delegate(Described(className, "waitUntilVisible", c.locator, <<>>),
                  c.locator.selector, "waitFor",
                  [options |-> Spread(Opt(c), [state |-> "visible"])], ok)

\* protected async waitUntilVisible(locator, options?):
\* await locator.waitFor({ state: 'visible', ...options });
waitUntilVisible(className, c, ok) ==
    IF getLocatorDescription(c.locator).threw THEN Escapes("toString")
    ELSE Delegate(Described(className, "waitUntilVisible", c.locator, <<>>),
                  c.locator.selector, "waitFor",
                  [options |-> Spread([state |-> "visible"], Opt(c))], ok)

\* protected async waitUntilHidden(locator, options?):
\* await locator.waitFor({ state: 'hidden', ...options });
waitUntilHidden(className, c, ok) ==
    IF getLocatorDescription(c.locator).threw THEN Escapes("toString")
    ELSE Delegate(Described(className, "waitUntilHidden", c.locator, <<>>),
                  c.locator.selector, "waitFor",
                  [options |-> Spread([state |-> "hidden"], Opt(c))], ok)

\* protected async fill(locator, text, options?)
fill(className, c, ok) ==
    IF getLocatorDescription(c.locator).threw THEN Escapes("toString")
    ELSE Delegate(Described(className, "fill", c.locator, << ", \"", c.text, "\"" >>),
                  c.locator.selector, "fill", Forward(c, {"text", "options"}), ok)

\* protected async hover(locator, options?)
hover(className, c, ok) ==
    IF getLocatorDescription(c.locator).threw THEN Escapes("toString")
    ELSE Delegate(Described(className, "hover", c.locator, <<>>),
                  c.locator.selector, "hover", Forward(c, {"options"}), ok)

\* protected async selectOption(locator, value, options?): the options, when
\* given, are logged after the closing parenthesis.
selectOption(className, c, ok) ==
    IF getLocatorDescription(c.locator).threw THEN Escapes("toString")
    ELSE Delegate(<< log(className,
                         << "selectOption", "(", getLocatorDescription(c.locator).value,
                            ", ", JsonStringify(c.value), ")" >>
                         \o (IF "options" \in DOMAIN c
                             THEN << ", ", JsonStringify(c.options) >> ELSE <<>>)) >>,
                  c.locator.selector, "selectOption", Forward(c, {"value", "options"}), ok)

(***************************************************************************)
(* PageObjectModel                                                         *)
(***************************************************************************)
\* What page.goto(url, options?) waits for before it resolves: the
\* waitUntil of its options, and the load event when none is given, as the
\* capability documents ("waitUntil ... defaults to 'load'").  Where the
\* repository wants the DOM-constructed signal it passes the option:
\* setContent(html, { waitUntil: 'domcontentloaded' }) in Mockup.ts and
\* MockupFunction.ts.
NavigationSignal(a) ==
    IF "options" \in DOMAIN a /\ "waitUntil" \in DOMAIN a.options
    THEN a.options.waitUntil ELSE "load"

\* How a page.goto call ends.
Navigation(a, ok) ==
    IF ok THEN [status |-> "resolved", signal |-> NavigationSignal(a)]
    ELSE [status |-> "rejected", error |-> CapabilityError("goto", 0)]

\* goto loading the name of the class instead of the bound url.
goto_ClassName(className, url, ok) ==
    [events |-> << log(className, << "goto(\"", url, "\")" >>),
                   Delegated("page", "goto", [url |-> className], ok) >>,
     outcome |-> Navigation([url |-> className], ok)]

\* goto trying a failed navigation a second time.
goto_Retry(className, url, ok) ==
    [events |-> << log(className, << "goto(\"", url, "\")" >>),
                   Delegated("page", "goto", [url |-> url], ok) >>
                \o (IF ok THEN <<>>
                    ELSE << Delegated("page", "goto", [url |-> url], ok) >>),
     outcome |-> Navigation([url |-> url], ok)]

\* goto asking the capability to resolve at DOMContentLoaded.
goto_DomContentLoaded(className, url, ok) ==
    [events |-> << log(className, << "goto(\"", url, "\")" >>),
                   Delegated("page", "goto",
                             [url |-> url, options |-> [waitUntil |-> "domcontentloaded"]], ok) >>,
     outcome |-> Navigation([url |-> url, options |-> [waitUntil |-> "domcontentloaded"]], ok)]

\* async goto(): this.log(`goto("${this.url}")`); await this.page.goto(this.url);
goto(className, url, ok) ==
    [events |-> << log(className, << "goto(\"", url, "\")" >>),
                   Delegated("page", "goto", [url |-> url], ok) >>,
     outcome |-> Navigation([url |-> url], ok)]

(***************************************************************************)
(* The calls a test makes on a page object.                                *)
(***************************************************************************)
AccessorCalls(method) ==
    UNION { WithOptions([method |-> method, text |-> t], { [exact |-> TRUE] }) : t \in Texts }

ActionCalls(method, extra, objects) ==
    UNION { WithOptions(Spread([method |-> method, locator |-> l], extra), objects)
            : l \in Locators }

\* new ExampleComponentPom(page) / new ExamplePagePom(page, url):
\* this.page = page; this.className = this.constructor.name; this.url = url
Construct ==
    /\ \E cls \in PomClasses :
       \E url \in (IF cls = "ExamplePagePom" THEN PomUrls ELSE {Undefined}) :
          /\ pom' = [className |-> cls, url |-> url]
          /\ pomNew' = [className |-> cls, url |-> url]
    /\ pomCall' = [s \in PomSlots |-> NoCall]
    /\ pomTrace' = [s \in PomSlots |-> <<>>]
    /\ pomOutcome' = [s \in PomSlots |-> NoOutcome]
    /\ pomCounted' = {}
    /\ pomCalls' = 0
    /\ pomLines' = 0
    /\ UNCHANGED mockupVars

LocatorActions ==
    {"click", "fill", "hover", "selectOption", "waitUntilVisible", "waitUntilHidden"}
Actions == LocatorActions \cup {"press"}
Accessors ==
    {"$error", "getByText", "getByRole", "getByTestId", "getByLabel",
     "getByPlaceholder", "getByAltText", "locator"}

\* What the method c names does on an object of class className bound to
\* url, when its capability call ends as ok says.
Method(className, url, c, ok) ==
    CASE c.method = "$error" -> errorGetter(className, c, ok)
      [] c.method = "getByText" -> getByText(className, c, ok)
      [] c.method = "getByRole" -> getByRole(className, c, ok)
      [] c.method = "getByTestId" -> getByTestId(className, c, ok)
      [] c.method = "getByLabel" -> getByLabel(className, c, ok)
      [] c.method = "getByPlaceholder" -> getByPlaceholder(className, c, ok)
      [] c.method = "getByAltText" -> getByAltText(className, c, ok)
      [] c.method = "locator" -> locatorMethod(className, c, ok)
      [] c.method = "press" -> press(className, c, ok)
      [] c.method = "click" -> click(className, c, ok)
      [] c.method = "waitUntilVisible" -> waitUntilVisible(className, c, ok)
      [] c.method = "waitUntilHidden" -> waitUntilHidden(className, c, ok)
      [] c.method = "fill" -> fill(className, c, ok)
      [] c.method = "hover" -> hover(className, c, ok)
      [] c.method = "selectOption" -> selectOption(className, c, ok)
      [] c.method = "goto" -> goto(className, url, ok)

\* The position of the first capability call among events, 0 when none.
FirstCall(events) ==
    IF \E i \in DOMAIN events : events[i].kind = "call"
    THEN CHOOSE i \in DOMAIN events :
            /\ events[i].kind = "call"
            /\ \A j \in 1..(i - 1) : events[j].kind # "call"
    ELSE 0

\* An async method running until `await <capability call>`: what it did
\* before the call is done, the call is made and has not settled, the
\* promise of the method is pending.  A method that makes no call is over.
Suspended(r) ==
    LET n == FirstCall(r.events)
    IN  IF n = 0 THEN [trace |-> r.events, outcome |-> r.outcome]
        ELSE [trace |-> SubSeq(r.events, 1, n - 1) \o << Rest(r.events[n], {"ok"}) >>,
              outcome |-> Pending]

Logged(events) == Cardinality({ i \in DOMAIN events : events[i].kind = "log" })

\* The slots of the calls whose promise is pending: awaiting the
\* description of their locator (nothing logged or called yet), or
\* awaiting their capability call.
Describing(s) == pomOutcome[s].status = "pending" /\ pomTrace[s] = <<>>
InFlight(s) == pomOutcome[s].status = "pending" /\ pomTrace[s] # <<>>
Awaited == \A s \in PomSlots : pomOutcome[s].status # "pending"

\* The slot a new call is kept in.
FreeSlot == CHOOSE s \in PomSlots :
                /\ pomOutcome[s].status # "pending"
                /\ \A t \in PomSlots : pomOutcome[t].status # "pending" => s <= t

\* The fields of the object after a method ran: url is public readonly,
\* className private readonly, and no method assigns either.
Kept(self) == [className |-> self.className, url |-> self.url]

\* A call is made and kept in the free slot; it is counted when fewer than
\* MaxPomCalls were, with the n lines it logs before it returns.
Counted(n) ==
    IF pomCalls < MaxPomCalls
    THEN /\ pomCalls' = pomCalls + 1
         /\ pomCounted' = pomCounted \cup {FreeSlot}
         /\ pomLines' = pomLines + n
    ELSE /\ pomCalls' = pomCalls
         /\ pomCounted' = pomCounted \ {FreeSlot}
         /\ pomLines' = pomLines

\* The call in slot s logs n lines more: counted when the call is.
Logs(s, n) ==
    /\ pomLines' = IF s \in pomCounted THEN pomLines + n ELSE pomLines
    /\ UNCHANGED << pomCall, pomCounted, pomCalls >>

\* The call in slot s has got as far as trace, with outcome.
Proceeds(s, trace, o) ==
    /\ pomTrace' = [pomTrace EXCEPT ![s] = trace]
    /\ pomOutcome' = [pomOutcome EXCEPT ![s] = o]
    /\ Logs(s, Logged(trace) - Logged(pomTrace[s]))
    /\ pom' = Kept(pom)
    /\ UNCHANGED << pomNew, mockupVars >>

\* The object under test is called with c and the method runs until it
\* returns to its caller: an accessor to its end; press and goto until
\* their line is logged and their capability call is made; a locator
\* action until `await this.getLocatorDescription(locator)`, before
\* anything is logged.
Performs(c) ==
    /\ pom # NoPom
    /\ pomCall' = [pomCall EXCEPT ![FreeSlot] = c]
    /\ IF c.method \in LocatorActions
       THEN /\ pomTrace' = [pomTrace EXCEPT ![FreeSlot] = <<>>]
            /\ pomOutcome' = [pomOutcome EXCEPT ![FreeSlot] = Pending]
            /\ Counted(0)
       ELSE \E ok \in (IF c.method \in {"press", "goto"} THEN {TRUE} ELSE BOOLEAN) :
               LET r == Method(pom.className, pom.url, c, ok)
                   reached == IF c.method \in {"press", "goto"} THEN Suspended(r)
                              ELSE [trace |-> r.events, outcome |-> r.outcome]
               IN  /\ pomTrace' = [pomTrace EXCEPT ![FreeSlot] = reached.trace]
                   /\ pomOutcome' = [pomOutcome EXCEPT ![FreeSlot] = reached.outcome]
                   /\ Counted(Logged(reached.trace))
    /\ pom' = Kept(pom)
    /\ UNCHANGED << pomNew, mockupVars >>

\* `await this.getLocatorDescription(locator)` of the call in slot s
\* settles: the line is logged and the capability call is made.
Pom_getLocatorDescription(s) ==
    /\ Describing(s)
    /\ LET reached == Suspended(Method(pom.className, pom.url, pomCall[s], TRUE))
       IN  Proceeds(s, reached.trace, reached.outcome)

\* The capability call the call in slot s awaits settles, and the method
\* ends as it ends.
Pom_settle(s) ==
    /\ InFlight(s)
    /\ pomCall[s].method \in Actions \cup {"goto"}
    /\ \E ok \in BOOLEAN :
         LET r == Method(pom.className, pom.url, pomCall[s], ok)
         IN  Proceeds(s, r.events, r.outcome)

Pom_error ==
    Performs([method |-> "$error"])

Pom_getByText ==
    \E c \in AccessorCalls("getByText") : Performs(c)

Pom_getByRole ==
    \E c \in WithOptions([method |-> "getByRole", role |-> "button"], { [name |-> "Submit"] }) :
        Performs(c)

Pom_getByTestId ==
    \E t \in Texts : Performs([method |-> "getByTestId", text |-> t])

Pom_getByLabel ==
    \E c \in AccessorCalls("getByLabel") : Performs(c)

Pom_getByPlaceholder ==
    \E c \in AccessorCalls("getByPlaceholder") : Performs(c)

Pom_getByAltText ==
    \E c \in AccessorCalls("getByAltText") : Performs(c)

Pom_locator ==
    \E c \in WithOptions([method |-> "locator", selector |-> "button"], { [hasText |-> "Go"] }) :
        Performs(c)

Pom_press ==
    \E c \in WithOptions([method |-> "press", key |-> "Enter"], { [delay |-> 10] }) :
        Performs(c)

Pom_click ==
    \E c \in ActionCalls("click", EmptyObject, ObjectsOver({"force", "timeout"}, ClickChoices)) :
        Performs(c)

Pom_waitUntilVisible ==
    \E c \in ActionCalls("waitUntilVisible", EmptyObject,
                         ObjectsOver({"state", "timeout"}, WaitChoices)) :
        Performs(c)

Pom_waitUntilHidden ==
    \E c \in ActionCalls("waitUntilHidden", EmptyObject,
                         ObjectsOver({"state", "timeout"}, WaitChoices)) :
        Performs(c)

Pom_fill ==
    \E c \in ActionCalls("fill", [text |-> "hello"], TimeoutOptions) : Performs(c)

Pom_hover ==
    \E c \in ActionCalls("hover", EmptyObject, TimeoutOptions) : Performs(c)

Pom_selectOption ==
    \E c \in ActionCalls("selectOption", [value |-> "a"], TimeoutOptions) : Performs(c)

\* goto() exists on a PageObjectModel only.
Pom_goto ==
    /\ pom.url # Undefined
    /\ Performs([method |-> "goto"])

\* A test that awaits every call: a method is called when no promise is
\* pending.
NextPom ==
    \/ Construct
    \/ Awaited /\ Pom_error
    \/ Awaited /\ Pom_getByText
    \/ Awaited /\ Pom_getByRole
    \/ Awaited /\ Pom_getByTestId
    \/ Awaited /\ Pom_getByLabel
    \/ Awaited /\ Pom_getByPlaceholder
    \/ Awaited /\ Pom_getByAltText
    \/ Awaited /\ Pom_locator
    \/ Awaited /\ Pom_press
    \/ Awaited /\ Pom_click
    \/ Awaited /\ Pom_waitUntilVisible
    \/ Awaited /\ Pom_waitUntilHidden
    \/ Awaited /\ Pom_fill
    \/ Awaited /\ Pom_hover
    \/ Awaited /\ Pom_selectOption
    \/ Awaited /\ Pom_goto
    \/ \E s \in PomSlots : Pom_getLocatorDescription(s)
    \/ \E s \in PomSlots : Pom_settle(s)

SpecPom == Init /\ [][NextPom]_vars

\* A test that does not await: the calls it makes while promises of
\* earlier calls are pending.
UnawaitedCalls ==
    LET button == CHOOSE l \in Locators : l.selector = "button"
        select == CHOOSE l \in Locators : l.selector = "select"
    IN  { [method |-> "$error"],
          [method |-> "locator", selector |-> "button"],
          [method |-> "getByText", text |-> [kind |-> "string", source |-> "Hello"]],
          [method |-> "getByRole", role |-> "button"],
          [method |-> "getByTestId", text |-> [kind |-> "string", source |-> "Hello"]],
          [method |-> "getByLabel", text |-> [kind |-> "string", source |-> "Hello"]],
          [method |-> "getByPlaceholder", text |-> [kind |-> "string", source |-> "Hello"]],
          [method |-> "getByAltText", text |-> [kind |-> "string", source |-> "Hello"]],
          [method |-> "press", key |-> "Enter"],
          [method |-> "click", locator |-> button],
          [method |-> "click", locator |-> select, options |-> [force |-> FALSE]],
          [method |-> "fill", locator |-> button, text |-> "hello"],
          [method |-> "hover", locator |-> button],
          [method |-> "waitUntilVisible", locator |-> button,
           options |-> [state |-> "hidden"]],
          [method |-> "waitUntilHidden", locator |-> button],
          [method |-> "selectOption", locator |-> select, value |-> "a"],
          [method |-> "goto"] }

Pom_unawaited ==
    /\ \E s \in PomSlots : pomOutcome[s].status # "pending"
    /\ \E c \in UnawaitedCalls :
           /\ c.method = "goto" => pom.url # Undefined
           /\ Performs(c)

NextPomUnawaited ==
    \/ Construct
    \/ Pom_unawaited
    \/ \E s \in PomSlots : Pom_getLocatorDescription(s)
    \/ \E s \in PomSlots : Pom_settle(s)

SpecPomUnawaited == Init /\ [][NextPomUnawaited]_vars

(***************************************************************************)
(* MockupExamplePom of src/playwright.config.ts: a page object whose       *)
(* methods call Mockup of MockupFunction.ts on the object's page.  The     *)
(* Mockup call a method call in slot s makes is invocation s.              *)
(***************************************************************************)
MockupExampleMethods == {"createBrowserMockup", "createMultipleMockups", "waitAndMockup"}

\* this.page: the page fixture of the test.
PomPage == CHOOSE p \in Invocations : \A q \in Invocations : p <= q

\* urls.join(', ')
RECURSIVE Join(_)
Join(urls) ==
    IF urls = <<>> THEN <<>>
    ELSE IF Len(urls) = 1 THEN << urls[1] >>
    ELSE << urls[1], ", " >> \o Join(Tail(urls))

\* The url lists a test passes to createMultipleMockups.
UrlLists ==
    { <<>>, << << "a" >> >>, << << "a" >>, << "<" >> >> }

\* new MockupExamplePom(page): super(page)
ConstructMockupExample ==
    /\ Awaited
    /\ \A p \in Invocations : pc[p] = "idle"
    /\ pom' = [className |-> "MockupExamplePom", url |-> Undefined]
    /\ pomNew' = [className |-> "MockupExamplePom", url |-> Undefined]
    /\ pomCall' = [s \in PomSlots |-> NoCall]
    /\ pomTrace' = [s \in PomSlots |-> <<>>]
    /\ pomOutcome' = [s \in PomSlots |-> NoOutcome]
    /\ pomCounted' = {}
    /\ pomCalls' = 0
    /\ pomLines' = 0
    /\ UNCHANGED mockupVars

\* Mockup(o) of MockupFunction.ts is called as invocation p and runs to its
\* first await: console.log(`[Mockup] Creating ...`); the type is checked;
\* console.log('[Mockup] Taking screenshot of current page'), and
\* page.screenshot is awaited.
CallsMockup(p, o) ==
    /\ pc' = [pc EXCEPT ![p] = IF IsSupportedType(o) THEN "fn_screenshot" ELSE "settled"]
    /\ impl' = [impl EXCEPT ![p] = "MockupFunction"]
    /\ args' = [args EXCEPT ![p] = o]
    /\ screenshot' = [screenshot EXCEPT ![p] = <<>>]
    /\ dataURL' = [dataURL EXCEPT ![p] = <<>>]
    /\ screenshotDimensions' = [screenshotDimensions EXCEPT ![p] = NoDimensions]
    /\ measurePage' = [measurePage EXCEPT ![p] = 0]
    /\ mockupPage' = [mockupPage EXCEPT ![p] = 0]
    /\ pending' = [pending EXCEPT ![p] = NothingPending]
    /\ outcome' = [outcome EXCEPT ![p] =
           IF IsSupportedType(o) THEN Unsettled
           ELSE [status |-> "rejected", value |-> <<>>,
                 error |-> UnsupportedTypeError(o.type)]]
    /\ calls' = [calls EXCEPT ![p] = <<>>]
    /\ console' = [console EXCEPT ![p] =
           << << "[Mockup] Creating ", o.type, " mockup for URL: ", o.url >> >>
           \o (IF IsSupportedType(o)
               THEN << << "[Mockup] Taking screenshot of current page" >> >>
               ELSE <<>>)]
    /\ openAtCall' = [openAtCall EXCEPT ![p] = OpenCount]
    /\ UNCHANGED << pages, files >>

\* The promise of invocation p was seen to settle; its frame is gone.
MockupReturned(p) ==
    /\ pc' = [pc EXCEPT ![p] = "idle"]
    /\ impl' = [impl EXCEPT ![p] = "none"]
    /\ args' = [args EXCEPT ![p] = NoArgs]
    /\ screenshot' = [screenshot EXCEPT ![p] = <<>>]
    /\ dataURL' = [dataURL EXCEPT ![p] = <<>>]
    /\ screenshotDimensions' = [screenshotDimensions EXCEPT ![p] = NoDimensions]
    /\ measurePage' = [measurePage EXCEPT ![p] = 0]
    /\ mockupPage' = [mockupPage EXCEPT ![p] = 0]
    /\ pending' = [pending EXCEPT ![p] = NothingPending]
    /\ outcome' = [outcome EXCEPT ![p] = Unsettled]
    /\ calls' = [calls EXCEPT ![p] = <<>>]
    /\ console' = [console EXCEPT ![p] = <<>>]
    /\ openAtCall' = [openAtCall EXCEPT ![p] = 0]
    /\ UNCHANGED << pages, files >>

\* async createBrowserMockup(url), reached by the call in slot s whose trace
\* is before: this.log(`createBrowserMockup("${url}")`);
\* return await Mockup({ page: this.page, type: 'browser', url: url });
createBrowserMockup(s, url, before) ==
    LET o == [page |-> PomPage, type |-> "browser", url |-> url]
        trace == before \o << log(pom.className, << "createBrowserMockup(\"", url, "\")" >>),
                              [kind |-> "Mockup", options |-> o] >>
    IN  /\ pomTrace' = [pomTrace EXCEPT ![s] = trace]
        /\ pomOutcome' = [pomOutcome EXCEPT ![s] = Pending]
        /\ CallsMockup(s, o)

\* A method of MockupExamplePom is called with c.
PerformsMockupExample(c) ==
    /\ pom.className = "MockupExamplePom"
    /\ pc[FreeSlot] = "idle"
    /\ pomCall' = [pomCall EXCEPT ![FreeSlot] = c]
    /\ pom' = Kept(pom)
    /\ UNCHANGED pomNew

Pom_createBrowserMockup ==
    \E url \in Urls :
        /\ PerformsMockupExample([method |-> "createBrowserMockup", url |-> url])
        /\ createBrowserMockup(FreeSlot, url, <<>>)
        /\ Counted(1)

\* async createMultipleMockups(urls):
\* this.log(`createMultipleMockups([${urls.join(', ')}])`);
\* for (const url of urls) { const mockup = await this.createBrowserMockup(url); ... }
Pom_createMultipleMockups ==
    \E urls \in UrlLists :
        LET line == log(pom.className,
                        << "createMultipleMockups([" >> \o Join(urls) \o << "])" >>)
        IN  /\ PerformsMockupExample([method |-> "createMultipleMockups", urls |-> urls])
            /\ IF urls = <<>>
               THEN /\ pomTrace' = [pomTrace EXCEPT ![FreeSlot] = << line >>]
                    /\ pomOutcome' = [pomOutcome EXCEPT ![FreeSlot] =
                                        [status |-> "resolved", value |-> <<>>]]
                    /\ Counted(1)
                    /\ UNCHANGED mockupVars
               ELSE /\ createBrowserMockup(FreeSlot, urls[1], << line >>)
                    /\ Counted(2)

\* async waitAndMockup(url): this.log(`waitAndMockup("${url}")`);
\* await this.page.waitForLoadState('domcontentloaded');
Pom_waitAndMockup ==
    \E url \in Urls :
        /\ PerformsMockupExample([method |-> "waitAndMockup", url |-> url])
        /\ pomTrace' = [pomTrace EXCEPT ![FreeSlot] =
               << log(pom.className, << "waitAndMockup(\"", url, "\")" >>),
                  Rest(Delegated("page", "waitForLoadState",
                                 [state |-> "domcontentloaded"], TRUE), {"ok"}) >>]
        /\ pomOutcome' = [pomOutcome EXCEPT ![FreeSlot] = Pending]
        /\ Counted(1)
        /\ UNCHANGED mockupVars

\* The trace of slot s with its last event, the awaited call, replaced by e.
Ended(s, e) == SubSeq(pomTrace[s], 1, Len(pomTrace[s]) - 1) \o << e >>

\* waitAndMockup: page.waitForLoadState settles; on success
\* return await this.createBrowserMockup(url);
Pom_waitForLoadState(s) ==
    /\ pomCall[s].method = "waitAndMockup"
    /\ pomOutcome[s].status = "pending"
    /\ pomTrace[s][Len(pomTrace[s])].kind = "call"
    /\ pc[s] = "idle"
    /\ \/ /\ pomTrace' = [pomTrace EXCEPT ![s] =
                 Ended(s, Delegated("page", "waitForLoadState",
                                    [state |-> "domcontentloaded"], FALSE))]
          /\ pomOutcome' = [pomOutcome EXCEPT ![s] =
                 [status |-> "rejected",
                  error |-> CapabilityError("waitForLoadState", 0)]]
          /\ Logs(s, 0)
          /\ UNCHANGED mockupVars
       \/ /\ createBrowserMockup(s, pomCall[s].url,
                 Ended(s, Delegated("page", "waitForLoadState",
                                    [state |-> "domcontentloaded"], TRUE)))
          /\ Logs(s, 1)
    /\ pom' = Kept(pom)
    /\ UNCHANGED pomNew

\* The values of the Mockup calls in a trace.
Mockups(trace) ==
    LET made == SelectSeq(trace, LAMBDA e : e.kind = "Mockup")
    IN  [k \in 1..Len(made) |-> made[k].value]

\* `await Mockup(...)` of the call in slot s settles.  A rejection leaves
\* the method; createBrowserMockup and waitAndMockup return the bytes;
\* createMultipleMockups pushes them and goes on with the next url, or
\* returns the mockups after the last.
Pom_mockupSettles(s) ==
    /\ pomCall[s].method \in MockupExampleMethods
    /\ pomOutcome[s].status = "pending"
    /\ pomTrace[s][Len(pomTrace[s])].kind = "Mockup"
    /\ pc[s] = "settled"
    /\ LET settled == Spread(pomTrace[s][Len(pomTrace[s])], [status |-> outcome[s].status,
                                       value |-> outcome[s].value])
           trace == Ended(s, settled)
           made == Len(Mockups(trace))
       IN  IF outcome[s].status = "rejected"
           THEN /\ pomTrace' = [pomTrace EXCEPT ![s] = trace]
                /\ pomOutcome' = [pomOutcome EXCEPT ![s] =
                       [status |-> "rejected", error |-> outcome[s].error]]
                /\ Logs(s, 0)
                /\ MockupReturned(s)
           ELSE IF pomCall[s].method = "createMultipleMockups"
           THEN IF made < Len(pomCall[s].urls)
                THEN /\ createBrowserMockup(s, pomCall[s].urls[made + 1], trace)
                     /\ Logs(s, 1)
                ELSE /\ pomTrace' = [pomTrace EXCEPT ![s] = trace]
                     /\ pomOutcome' = [pomOutcome EXCEPT ![s] =
                            [status |-> "resolved", value |-> Mockups(trace)]]
                     /\ Logs(s, 0)
                     /\ MockupReturned(s)
           ELSE /\ pomTrace' = [pomTrace EXCEPT ![s] = trace]
                /\ pomOutcome' = [pomOutcome EXCEPT ![s] =
                       [status |-> "resolved", value |-> outcome[s].value]]
                /\ Logs(s, 0)
                /\ MockupReturned(s)
    /\ pom' = Kept(pom)
    /\ UNCHANGED pomNew

NextMockupExample ==
    \/ ConstructMockupExample
    \/ Awaited /\ Pom_createBrowserMockup
    \/ Awaited /\ Pom_createMultipleMockups
    \/ Awaited /\ Pom_waitAndMockup
    \/ \E s \in PomSlots : Pom_waitForLoadState(s)
    \/ \E s \in PomSlots : Pom_mockupSettles(s)
    \/ \E s \in PomSlots : MockupFunction_screenshot(s)
    \/ \E s \in PomSlots : MockupFunction_newPage(s)
    \/ \E s \in PomSlots : MockupFunction_setContent(s)
    \/ \E s \in PomSlots : MockupFunction_mockupScreenshot(s)
    \/ \E s \in PomSlots : MockupFunction_close(s)
    \/ Teardown

SpecMockupExample == Init /\ [][NextMockupExample]_vars

\* The capability calls and the log lines of the call in slot s.
CallEvents(s) == { i \in DOMAIN pomTrace[s] : pomTrace[s][i].kind = "call" }
LogEvents(s) == { i \in DOMAIN pomTrace[s] : pomTrace[s][i].kind = "log" }
\* The capability call i of the call in slot s has settled, and how.
Failed(s, i) == "ok" \in DOMAIN pomTrace[s][i] /\ ~pomTrace[s][i].ok
Succeeded(s, i) == "ok" \in DOMAIN pomTrace[s][i] /\ pomTrace[s][i].ok
PomSettled(s) == pomOutcome[s].status \in {"resolved", "rejected"}

PomTypeOK ==
    /\ pomCalls \in 0..MaxPomCalls
    /\ pomCounted \subseteq PomSlots
    /\ \A s \in PomSlots :
         pomCall[s].method \in Actions \cup Accessors \cup MockupExampleMethods
                                   \cup {"goto", "none"}

(***************************************************************************)
(* Properties of the page objects.                                         *)
(***************************************************************************)
\* The options the capability call i of the call in slot s was given.
SentOptions(s, i) == pomTrace[s][i].args.options

\* C11: click delegates to locator.click with force: true when the caller's
\* options do not set force and with the caller's value when they do, and
\* every other option of the caller is forwarded unchanged.
C11_ClickForceIsADefault ==
    \A s \in PomSlots :
        pomCall[s].method = "click" =>
            \A i \in CallEvents(s) :
                /\ SentOptions(s, i).force =
                       (IF "force" \in DOMAIN Opt(pomCall[s])
                        THEN pomCall[s].options.force ELSE TRUE)
                /\ \A k \in (DOMAIN Opt(pomCall[s])) \ {"force"} :
                       /\ k \in DOMAIN SentOptions(s, i)
                       /\ SentOptions(s, i)[k] = pomCall[s].options[k]

\* The counted calls that have not logged yet: they await the description
\* of their locator.
NotYetLogged == Cardinality({ s \in pomCounted : Describing(s) })

\* C12: every accessor or action call appends exactly one log line, so
\* after n calls the log holds n lines.
C12_OneLinePerCall == pomLines = pomCalls - NotYetLogged

\* C12, amended: a call of $error appends two lines (its own and the one of
\* locator()), every other accessor or action call appends exactly one, so
\* after n calls the log holds between n and 2n lines.
C12_OneLinePerCallTwoForErrorGetter ==
    /\ \A s \in PomSlots :
         (pomCall[s].method \in Accessors \cup Actions /\ ~Describing(s)) =>
             Cardinality(LogEvents(s)) = (IF pomCall[s].method = "$error" THEN 2 ELSE 1)
    /\ pomCalls - NotYetLogged <= pomLines
    /\ pomLines <= 2 * (pomCalls - NotYetLogged)

C12_Witness ==
    /\ \E s \in PomSlots : pomCall[s].method = "$error" /\ Cardinality(LogEvents(s)) = 2
    /\ Awaited
    /\ pomCalls = MaxPomCalls
    /\ pomLines = MaxPomCalls + 1

\* C13: for every action and for goto, the log line of the call is emitted
\* before the delegated capability operation is started, also when that
\* operation then fails.
C13_LogBeforeDelegate ==
    \A s \in PomSlots :
        pomCall[s].method \in Actions \cup {"goto"} =>
            /\ \A i \in CallEvents(s) : \E j \in LogEvents(s) : j < i
            /\ ~Describing(s) =>
                 /\ CallEvents(s) # {}
                 /\ Cardinality(LogEvents(s)) = 1

\* fill whose line is logged while locator.fill has not settled, and fill
\* rejected after its line was logged.
C13_Witness ==
    /\ \E s \in PomSlots :
         /\ pomCall[s].method = "fill"
         /\ InFlight(s)
         /\ Len(pomTrace[s]) = 2
         /\ pomTrace[s][1].kind = "log"
         /\ pomTrace[s][2].kind = "call"
    /\ \E s \in PomSlots :
         /\ pomCall[s].method \in Actions \cup {"goto"}
         /\ pomOutcome[s].status = "rejected"
         /\ pomTrace[s][1].kind = "log"
         /\ Failed(s, 2)

\* C14: when deriving the description of the target locator throws, a
\* locator action logs with the placeholder 'element' in place of the
\* description and still performs the delegated operation.
C14_PlaceholderOnThrowingDescription ==
    \A s \in PomSlots :
        (pomCall[s].method \in LocatorActions /\ pomCall[s].locator.throws
            /\ ~Describing(s)) =>
            /\ Len(pomTrace[s]) = 2
            /\ pomTrace[s][1].kind = "log"
            /\ pomTrace[s][1].line[4][1] = pomCall[s].method
            /\ pomTrace[s][1].line[4][3] = << "element" >>
            /\ pomTrace[s][2].kind = "call"
            /\ pomTrace[s][2].target = pomCall[s].locator.selector
            /\ pomOutcome[s].status =
                   (IF Succeeded(s, 2) THEN "resolved"
                    ELSE IF Failed(s, 2) THEN "rejected" ELSE "pending")

C14_Witness ==
    \E s \in PomSlots :
        /\ pomCall[s].method = "click"
        /\ pomCall[s].locator.throws
        /\ pomOutcome[s].status = "resolved"
        /\ pomTrace[s][2].op = "click"

\* C15: the url of a PageObjectModel is the value passed to the constructor
\* after any sequence of calls, and every goto() asks the capability to load
\* exactly that value.
C15_UrlBoundAtConstruction ==
    /\ pom.url = pomNew.url
    /\ \A s \in PomSlots :
         pomCall[s].method = "goto" =>
             /\ CallEvents(s) # {}
             /\ \A i \in CallEvents(s) :
                    /\ pomTrace[s][i].op = "goto"
                    /\ pomTrace[s][i].args.url = pomNew.url

C15_Witness ==
    \E s \in PomSlots :
        /\ pomCall[s].method = "goto"
        /\ pomCalls = MaxPomCalls
        /\ pomNew.url = "/home"
        /\ pomTrace[s][2].args.url = "/home"
        /\ PomSettled(s)

\* C16: goto fails with a NavigationError when the capability reports a
\* failed load; the failure is surfaced and page.goto is called exactly once.
C16_GotoFailsWithNavigationError ==
    \A s \in PomSlots :
        (pomCall[s].method = "goto" /\ \E i \in CallEvents(s) : Failed(s, i)) =>
            /\ pomOutcome[s].status = "rejected"
            /\ pomOutcome[s].error.name = "NavigationError"
            /\ Cardinality(CallEvents(s)) = 1

\* C16, amended: when page.goto rejects, goto rejects with that very error
\* (no NavigationError is defined) and page.goto is called exactly once per
\* goto().
C16_GotoFailureSurfacedOnce ==
    \A s \in PomSlots :
        pomCall[s].method = "goto" =>
            /\ Cardinality(CallEvents(s)) = 1
            /\ \A i \in CallEvents(s) :
                   Failed(s, i) =>
                       /\ pomOutcome[s].status = "rejected"
                       /\ pomOutcome[s].error = CapabilityError("goto", 0)

C16_Witness ==
    \E s \in PomSlots :
        /\ pomCall[s].method = "goto"
        /\ pomOutcome[s].status = "rejected"
        /\ Failed(s, 2)

\* C17: goto resolves as soon as the capability reports that the DOM is
\* constructed, without waiting for the sub-resources to load.
C17_GotoResolvesAtDomConstructed ==
    \A s \in PomSlots :
        (pomCall[s].method = "goto" /\ pomOutcome[s].status = "resolved") =>
            pomOutcome[s].signal = "domcontentloaded"

\* C17, amended: goto hands page.goto the url alone, so it resolves when
\* page.goto does by default, at the load event.
C17_GotoResolvesAtLoad ==
    \A s \in PomSlots :
        pomCall[s].method = "goto" =>
            /\ \A i \in CallEvents(s) : DOMAIN pomTrace[s][i].args = {"url"}
            /\ pomOutcome[s].status = "resolved" => pomOutcome[s].signal = "load"

C17_Witness ==
    \E s \in PomSlots :
        /\ pomCall[s].method = "goto"
        /\ pomOutcome[s].status = "resolved"
        /\ Succeeded(s, 2)

(***************************************************************************)
(* Mockup called with the screenshot options of ScreenshotOptions, and     *)
(* with a focus target.                                                    *)
(***************************************************************************)
PassthroughKeys ==
    {"clip", "fullPage", "quality", "mask", "maskColor", "omitBackground",
     "scale", "style", "caret", "animations", "timeout"}

\* One value for every screenshot option, the output path, and the focus
\* target of the documentation's 'Focused Screenshot'.
AllScreenshotOptions ==
    [k \in PassthroughKeys \cup {"path", "focus"} |->
        CASE k = "clip" -> [x |-> 50, y |-> 50, width |-> 300, height |-> 200]
          [] k = "fullPage" -> TRUE
          [] k = "quality" -> 80
          [] k = "mask" -> << "button" >>
          [] k = "maskColor" -> "#FF00FF"
          [] k = "omitBackground" -> TRUE
          [] k = "scale" -> "css"
          [] k = "style" -> "body { margin: 0 }"
          [] k = "caret" -> "initial"
          [] k = "animations" -> "disabled"
          [] k = "timeout" -> 5000
          [] k = "path" -> "mockups/browser.png"
          [] k = "focus" -> [selector |-> "button"]]

\* The option objects a caller passes: at most two options, or all.
ScreenshotOptionObjects ==
    { [k \in S |-> AllScreenshotOptions[k]] :
        S \in { T \in SUBSET DOMAIN AllScreenshotOptions :
                  Cardinality(T) <= 2 \/ T = DOMAIN AllScreenshotOptions } }

\* MockupOptions of Mockup.ts with the screenshot options.
MockupOptionsWide(p) ==
    { Spread(Spread([page |-> p, frame |-> "browser", url |-> << "a" >>], t), o) :
        t \in { EmptyObject, [type |-> "jpeg"] }, o \in ScreenshotOptionObjects }

\* MockupOptions of MockupFunction.ts with the screenshot options.
MockupFunctionOptionsWide(p) ==
    { Spread(Spread([page |-> p, type |-> "browser", url |-> << "a" >>], t), o) :
        t \in { EmptyObject, [screenshotType |-> "jpeg"] }, o \in ScreenshotOptionObjects }

\* await Mockup(options), Mockup of Mockup.ts
CallMockupWide(p) ==
    /\ Quiet
    /\ \E o \in MockupOptionsWide(p) :
         args' = [args EXCEPT ![p] = o]
    /\ impl' = [impl EXCEPT ![p] = "Mockup"]
    /\ openAtCall' = [openAtCall EXCEPT ![p] = OpenCount]
    /\ Goto(p, "screenshot")
    /\ UNCHANGED << screenshot, dataURL, screenshotDimensions, measurePage,
                    mockupPage, pending, outcome, calls, console, pages, files >>
    /\ UNCHANGED pomVars

\* await Mockup(options), Mockup of MockupFunction.ts
CallMockupFunctionWide(p) ==
    /\ Quiet
    /\ \E o \in MockupFunctionOptionsWide(p) :
         args' = [args EXCEPT ![p] = o]
    /\ impl' = [impl EXCEPT ![p] = "MockupFunction"]
    /\ openAtCall' = [openAtCall EXCEPT ![p] = OpenCount]
    /\ Goto(p, "fn_validate")
    /\ UNCHANGED << screenshot, dataURL, screenshotDimensions, measurePage,
                    mockupPage, pending, outcome, calls, console, pages, files >>
    /\ UNCHANGED pomVars

NextOptions ==
    \/ \E p \in Invocations : CallMockupWide(p)
    \/ \E p \in Invocations : Mockup_screenshot(p)
    \/ \E p \in Invocations : getImageDimensions_newPage(p)
    \/ \E p \in Invocations : getImageDimensions_setContent(p)
    \/ \E p \in Invocations : getImageDimensions_waitForLoadState(p)
    \/ \E p \in Invocations : getImageDimensions_evaluate(p)
    \/ \E p \in Invocations : getImageDimensions_close(p)
    \/ \E p \in Invocations : Mockup_newPage(p)
    \/ \E p \in Invocations : Mockup_setContent(p)
    \/ \E p \in Invocations : Mockup_locatorScreenshot(p)
    \/ \E p \in Invocations : Mockup_close(p)
    \/ \E p \in Invocations : CallMockupFunctionWide(p)
    \/ \E p \in Invocations : MockupFunction_validate(p)
    \/ \E p \in Invocations : MockupFunction_screenshot(p)
    \/ \E p \in Invocations : MockupFunction_newPage(p)
    \/ \E p \in Invocations : MockupFunction_setContent(p)
    \/ \E p \in Invocations : MockupFunction_mockupScreenshot(p)
    \/ \E p \in Invocations : MockupFunction_close(p)
    \/ \E p \in Invocations : Return(p)
    \/ Teardown

SpecOptions == Init /\ [][NextOptions]_vars

\* The positions, in the call log of p, of the captures of the source page.
SourceCaptures(p) ==
    { i \in CallsOf(p, "screenshot") : calls[p][i].page = args[p].page }

\* C18: when a focus target is supplied to Mockup of Mockup.ts, the chrome
\* template rendered differs from the one rendered without a focus target
\* (it highlights the matching region), and the focus target is not
\* forwarded to the source page.screenshot call.
C18_FocusHighlightedAndConsumed ==
    \A p \in Invocations :
        (impl[p] = "Mockup" /\ "focus" \in DOMAIN args[p]) =>
            /\ \A i \in ChromeRenders(p) :
                 calls[p][i].args.html #
                     MountBrowserMockup(args[p].url, dataURL[p], screenshotDimensions[p])
            /\ \A i \in SourceCaptures(p) :
                 "focus" \notin DOMAIN calls[p][i].args

\* C19: in Mockup of Mockup.ts the only file write is of the final image:
\* path is never passed to the source page.screenshot call, and a step of
\* the call changes the files only when the final chrome capture resolves
\* for a call that was given a path, which then holds the bytes of that
\* capture.
C19_OnlyFinalImageWritten ==
    [][ \A p \in Invocations :
            (impl[p] = "Mockup" /\ pc'[p] # pc[p]) =>
                /\ \A i \in { j \in DOMAIN calls'[p] : calls'[p][j].op = "screenshot" } :
                       "path" \notin DOMAIN calls'[p][i].args
                /\ files' # files =>
                       /\ pc[p] = "locator_screenshot"
                       /\ Get(args[p], "path") # Undefined
                       /\ pending'[p].type = "return"
                       /\ files' = Spread(files,
                                          Single(args[p].path, pending'[p].value)) ]_vars

\* A call given a path has resolved with the bytes now in the file, and the
\* source capture was made without the path.
C19_Witness ==
    \E p \in Invocations :
        /\ impl[p] = "Mockup"
        /\ Resolved(p)
        /\ Get(args[p], "path") # Undefined
        /\ args[p].path \in DOMAIN files
        /\ files[args[p].path] = outcome[p].value
        /\ \E i \in SourceCaptures(p) :
             calls[p][i].ok /\ "path" \notin DOMAIN calls[p][i].args

\* The type the caller asked the source capture to have.
RequestedType(p) ==
    IF impl[p] = "Mockup" THEN Get(args[p], "type") ELSE ScreenshotTypeOf(args[p])

\* C20: the source capture receives every one of clip, fullPage, quality,
\* mask, maskColor, omitBackground, scale, style, caret, animations, timeout
\* that the caller set, with the same value, together with the requested
\* type; page, url and the frame discriminator are never forwarded.
C20_ScreenshotOptionsPassedThrough ==
    \A p \in Invocations :
        \A i \in SourceCaptures(p) :
            LET sent == calls[p][i].args
            IN  /\ \A k \in PassthroughKeys :
                     IF k \in DOMAIN args[p]
                     THEN k \in DOMAIN sent /\ sent[k] = args[p][k]
                     ELSE k \notin DOMAIN sent
                /\ sent.type = RequestedType(p)
                /\ {"page", "url", "frame"} \cap DOMAIN sent = {}
                /\ impl[p] = "MockupFunction" => sent.type # args[p].type

\* The source capture of Mockup.ts was made for a caller that set every
\* passthrough option.
C20_Witness ==
    \E p \in Invocations :
        /\ impl[p] = "Mockup"
        /\ PassthroughKeys \subseteq DOMAIN args[p]
        /\ Get(args[p], "type") = "jpeg"
        /\ \E i \in SourceCaptures(p) :
             /\ calls[p][i].ok
             /\ calls[p][i].args.clip = args[p].clip
             /\ calls[p][i].args.timeout = 5000

(***************************************************************************)
(* Two calls of Mockup of src/src/Mockup.ts in flight at once, each on a   *)
(* page of its own in the same browser context: their steps interleave.    *)
(***************************************************************************)
\* The two tests that call at the same time, each with the url of its own.
ConcurrentCallers == {1, 2}
MockupOptionsConcurrent(p) ==
    { [page |-> p, frame |-> "browser", url |-> IF p = 1 THEN << "a" >> ELSE << "<" >>] }

\* Mockup(options) called without awaiting the call another test made.
CallMockupConcurrently(p) ==
    /\ p \in ConcurrentCallers
    /\ pc[p] = "idle"
    /\ \E o \in MockupOptionsConcurrent(p) :
         args' = [args EXCEPT ![p] = o]
    /\ impl' = [impl EXCEPT ![p] = "Mockup"]
    /\ openAtCall' = [openAtCall EXCEPT ![p] = OpenCount]
    /\ Goto(p, "screenshot")
    /\ UNCHANGED << screenshot, dataURL, screenshotDimensions, measurePage,
                    mockupPage, pending, outcome, calls, console, pages, files >>
    /\ UNCHANGED pomVars

NextConcurrent ==
    \/ \E p \in Invocations : CallMockupConcurrently(p)
    \/ \E p \in Invocations : Mockup_screenshot(p)
    \/ \E p \in Invocations : getImageDimensions_newPage(p)
    \/ \E p \in Invocations : getImageDimensions_setContent(p)
    \/ \E p \in Invocations : getImageDimensions_waitForLoadState(p)
    \/ \E p \in Invocations : getImageDimensions_evaluate(p)
    \/ \E p \in Invocations : getImageDimensions_close(p)
    \/ \E p \in Invocations : Mockup_newPage(p)
    \/ \E p \in Invocations : Mockup_setContent(p)
    \/ \E p \in Invocations : Mockup_locatorScreenshot(p)
    \/ \E p \in Invocations : Mockup_close(p)

SpecConcurrent == Init /\ [][NextConcurrent]_vars

\* The pages the call of p opened and has not closed.
HeldBefore(p, n) ==
    { calls[p][i].result :
        i \in { j \in CallsOf(p, "newPage") :
                  /\ j < n
                  /\ calls[p][j].ok
                  /\ ~\E k \in CallsOf(p, "close") :
                        /\ j < k /\ k < n
                        /\ calls[p][k].ok
                        /\ calls[p][k].page = calls[p][j].result } }
Holds(p) == HeldBefore(p, Len(calls[p]) + 1)

\* Each call closes only pages it opened itself and holds at that moment,
\* no page is held by both, and each renders the screenshot and the url of
\* its own request.
OwnPagesOwnRequest ==
    \A p \in Invocations :
          /\ \A i \in CallsOf(p, "close") : calls[p][i].page \in HeldBefore(p, i)
          /\ \A id \in Holds(p) : pages[id].open
          /\ \A q \in Invocations \ {p} : Holds(p) \cap Holds(q) = {}
          /\ \A i \in ChromeRenders(p) :
                LET html == calls[p][i].args.html
                IN  /\ html[AddressBarAt] = args[p].url
                    /\ html[ImageSrcAt] = dataURL[p]
                    /\ \E j \in SourceCaptures(p) :
                          /\ j < i
                          /\ calls[p][j].ok
                          /\ dataURL[p] = DataURL(Get(args[p], "type"), calls[p][j].result)
                    /\ (calls[p][i].ok /\ calls[p][i].page \in Holds(p)) =>
                          pages[calls[p][i].page].content = html

\* C21: under every interleaving of two Mockup calls on different pages,
\* each call closes only pages it opened itself, never one of the other,
\* each renders the screenshot and the url of its own request, and once
\* both have finished the context has as many open pages as at the start.
C21_ConcurrentCallsRestoreCount ==
    /\ OwnPagesOwnRequest
    /\ (\A p \in Invocations : pc[p] \in {"idle", "settled"}) => OpenPages = Invocations

\* C21, amended: the same, but once both have finished the pages open
\* besides the source pages are those whose close() rejected, each still
\* held by the call that opened it; with every close() succeeding the
\* context has as many open pages as at the start.
C21_ConcurrentCallsIndependent ==
    /\ OwnPagesOwnRequest
    /\ (\A p \in Invocations : pc[p] \in {"idle", "settled"}) =>
          /\ OpenPages = Invocations \cup UNION { Holds(p) : p \in Invocations }
          /\ \A p \in Invocations :
                /\ \A id \in Holds(p) :
                      \E i \in CallsOf(p, "close") :
                          ~calls[p][i].ok /\ calls[p][i].page = id
                /\ ~CloseFailed(p) => Holds(p) = {}

\* Two calls with different urls and different screenshots had a page open
\* at the same time, and both resolved.
C21_Witness ==
    \E p, q \in Invocations :
        /\ p # q
        /\ Resolved(p) /\ Resolved(q)
        /\ ~CloseFailed(p) /\ ~CloseFailed(q)
        /\ args[p].url # args[q].url
        /\ dataURL[p] # dataURL[q]
        /\ OpenedBy(p) # OpenedBy(q)
        /\ OpenPages = Invocations

(***************************************************************************)
(* Properties of the pipeline's steps.                                     *)
(***************************************************************************)
\* The capability operations of the call of p in the order they were made,
\* page.context() left out.
Operations(p) ==
    LET made == SelectSeq(calls[p], LAMBDA c : c.op # "context")
    IN  [k \in 1..Len(made) |-> made[k].op]

\* The calls of p that close its chrome page: those after the chrome render.
ChromeCloses(p) ==
    { i \in CallsOf(p, "close") : \E j \in ChromeRenders(p) : j < i }

\* The failed calls of p that belong to the measurement: opening the
\* measurement page, its setContent, the load wait, evaluate.
MeasurementFailures(p) ==
    { i \in FailedCalls(p) :
        \/ calls[p][i].op \in {"waitForLoadState", "evaluate"}
        \/ calls[p][i].op = "setContent" /\ "waitUntil" \notin DOMAIN calls[p][i].args
        \/ calls[p][i].op = "newPage" /\ \A j \in CallsOf(p, "newPage") : i <= j }

\* C22: when a step of the pipeline fails, the step is not retried, no later
\* step is started, the only capability operation still made is close() on
\* a page the call holds open, and the call rejects.
C22_FailureAbortsPipeline ==
    \A p \in Invocations :
        \A i \in FailedCalls(p) :
            /\ \A j \in DOMAIN calls[p] :
                 j > i =>
                    /\ calls[p][i].op # "close"
                    /\ calls[p][j].op = "close"
                    /\ calls[p][j].page \in HeldBefore(p, i)
                    /\ j = i + 1
            /\ pc[p] \in {"measure_close", "close", "fn_close", "settled"}
            /\ Settled(p) => Rejected(p)

\* A call given a timeout whose chrome render failed: the chrome page was
\* closed and the call rejected.
C22_Witness ==
    \E p \in Invocations :
        /\ impl[p] = "Mockup"
        /\ "timeout" \in DOMAIN args[p]
        /\ Rejected(p)
        /\ \E i \in ChromeRenders(p) :
             /\ ~calls[p][i].ok
             /\ Len(calls[p]) = i + 1
             /\ calls[p][i + 1].op = "close"
             /\ calls[p][i + 1].ok

\* The order of the capability operations of Mockup of Mockup.ts.
MockupOrder ==
    << "screenshot", "newPage", "setContent", "waitForLoadState", "evaluate",
       "close", "newPage", "setContent", "locator.screenshot", "close" >>

\* C24: in every successful call of Mockup of Mockup.ts the capability
\* operations are, each once and one after the other: source screenshot,
\* open measurement page, measurement setContent, load wait, evaluate,
\* close measurement page, open chrome page, chrome setContent, final
\* element screenshot, close chrome page.
C24_StepsInOrder ==
    \A p \in Invocations :
        impl[p] = "Mockup" =>
            /\ FailedCalls(p) = {} =>
                 /\ Len(Operations(p)) <= Len(MockupOrder)
                 /\ \A k \in DOMAIN Operations(p) : Operations(p)[k] = MockupOrder[k]
            /\ Resolved(p) =>
                 /\ Operations(p) = MockupOrder
                 /\ FailedCalls(p) = {}

C24_Witness ==
    \E p \in Invocations :
        /\ impl[p] = "Mockup"
        /\ Resolved(p)
        /\ Operations(p) = MockupOrder
        /\ \E i \in ChromeRenders(p) : \E j \in CallsOf(p, "evaluate") : j < i

\* C26: during one call of Mockup of Mockup.ts at most one page the call
\* opened is open at any moment, the measurement page is closed before the
\* chrome page is opened, and neither is open when the call has settled.
C26_NoSurfaceOpenAtSettle ==
    \A p \in Invocations :
        impl[p] = "Mockup" =>
            /\ Cardinality(Holds(p)) <= 1
            /\ \A i \in CallsOf(p, "newPage") : HeldBefore(p, i) = {}
            /\ Settled(p) => Holds(p) = {}

\* C26, amended: at most one page the call opened is open at any moment,
\* the measurement page is closed before the chrome page is opened, and
\* when the call has settled none is open unless the close() of that very
\* page rejected, which is then the last call made and the call rejected.
C26_OneSurfaceAtATime ==
    \A p \in Invocations :
        impl[p] = "Mockup" =>
            /\ Cardinality(Holds(p)) <= 1
            /\ \A i \in CallsOf(p, "newPage") : HeldBefore(p, i) = {}
            /\ \A id \in Holds(p) : pages[id].open
            /\ (Settled(p) /\ Holds(p) # {}) =>
                 /\ Rejected(p)
                 /\ calls[p][Len(calls[p])].op = "close"
                 /\ ~calls[p][Len(calls[p])].ok
                 /\ Holds(p) = { calls[p][Len(calls[p])].page }

\* A call that opened both pages in turn and settled with none open.
C26_Witness ==
    \E p \in Invocations :
        /\ impl[p] = "Mockup"
        /\ Settled(p)
        /\ Cardinality(CallsOf(p, "newPage")) = 2
        /\ \A i \in CallsOf(p, "newPage") : calls[p][i].ok
        /\ Holds(p) = {}

\* C27: Mockup resolves with image bytes only if close() of the chrome page
\* succeeded; when close() of the chrome page rejects the call rejects with
\* the close error, whether the final capture had succeeded (its bytes are
\* lost) or a step before had failed (its error is lost).
C27_CloseErrorWins ==
    \A p \in Invocations :
        Settled(p) =>
            /\ Resolved(p) =>
                 /\ \E i \in CallsOf(p, IF impl[p] = "Mockup" THEN "locator.screenshot"
                                        ELSE "screenshot") :
                       /\ calls[p][i].ok
                       /\ calls[p][i].page = mockupPage[p]
                       /\ outcome[p].value = calls[p][i].result
                 /\ \E i \in ChromeCloses(p) : calls[p][i].ok /\ i = Len(calls[p])
            /\ \A i \in ChromeCloses(p) :
                 ~calls[p][i].ok =>
                    /\ Rejected(p)
                    /\ outcome[p].value = <<>>
                    /\ outcome[p].error = CapabilityError("close", calls[p][i].page)

\* The final capture succeeded, close() of the chrome page rejected, and the
\* call rejected with the close error.
C27_Witness ==
    \E p \in Invocations :
        /\ impl[p] = "Mockup"
        /\ Rejected(p)
        /\ \E i \in CallsOf(p, "locator.screenshot") : calls[p][i].ok
        /\ \E i \in ChromeCloses(p) :
             /\ ~calls[p][i].ok
             /\ outcome[p].error = CapabilityError("close", calls[p][i].page)

\* What is true of a call whose measurement failed, whatever error it
\* rejects with: no fallback dimensions, no chrome page, no final capture.
MeasurementFailureAborts(p) ==
    /\ screenshotDimensions[p] = NoDimensions
    /\ mockupPage[p] = 0
    /\ Cardinality(CallsOf(p, "newPage")) <= 1
    /\ ChromeRenders(p) = {}
    /\ CallsOf(p, "locator.screenshot") = {}
    /\ Settled(p) => Rejected(p)

\* C28: in Mockup of Mockup.ts a failure inside the measurement (opening
\* the measurement page, its setContent, the networkidle wait or evaluate
\* rejecting) makes the call reject with that error; no 800 by 600 fallback
\* is applied, the chrome page is never opened, no final capture is taken.
C28_MeasurementFailureRejectsWithIt ==
    \A p \in Invocations :
        impl[p] = "Mockup" =>
            \A i \in MeasurementFailures(p) :
                /\ MeasurementFailureAborts(p)
                /\ Settled(p) =>
                     outcome[p].error = CapabilityError(calls[p][i].op, calls[p][i].page)

\* C28, amended: such a failure makes the call reject with that error, or
\* with the error of measurePage.close() when the close() in the finally
\* block rejects as well; no fallback is applied, the chrome page is never
\* opened, no final capture is taken.
C28_MeasurementFailureRejects ==
    \A p \in Invocations :
        impl[p] = "Mockup" =>
            \A i \in MeasurementFailures(p) :
                /\ MeasurementFailureAborts(p)
                /\ Settled(p) =>
                     IF CloseFailed(p)
                     THEN /\ calls[p][i].op # "newPage"
                          /\ outcome[p].error = CapabilityError("close", measurePage[p])
                     ELSE outcome[p].error =
                              CapabilityError(calls[p][i].op, calls[p][i].page)

\* evaluate rejected, the measurement page was closed, the call rejected
\* with the error of evaluate.
C28_Witness ==
    \E p \in Invocations :
        /\ impl[p] = "Mockup"
        /\ Rejected(p)
        /\ ~CloseFailed(p)
        /\ \E i \in MeasurementFailures(p) :
             /\ calls[p][i].op = "evaluate"
             /\ outcome[p].error = CapabilityError("evaluate", measurePage[p])
        /\ OpenPages = Invocations

\* C29: the measurement falls back per dimension: the width is the natural
\* width when that is not 0 and 800 otherwise, the height is the natural
\* height when that is not 0 and 600 otherwise, so a result can mix a
\* measured value with a default, and both are always greater than 0.
C29_FallbackPerDimension ==
    \A p \in Invocations :
        \A i \in CallsOf(p, "evaluate") :
            calls[p][i].ok =>
                LET img == calls[p][i].args
                    d == calls[p][i].result
                IN  /\ d.width = (IF img.present /\ img.naturalWidth > 0
                                  THEN img.naturalWidth ELSE 800)
                    /\ d.height = (IF img.present /\ img.naturalHeight > 0
                                   THEN img.naturalHeight ELSE 600)
                    /\ d.width > 0 /\ d.height > 0
                    /\ pc[p] \in {"newPage", "setContent", "locator_screenshot", "close"}
                          => screenshotDimensions[p] = d

\* Natural 0 by 50 measured as 800 by 50, and rendered so.
C29_Witness ==
    \E p \in Invocations :
        /\ \E i \in CallsOf(p, "evaluate") :
             /\ calls[p][i].ok
             /\ calls[p][i].args.naturalWidth = 0
             /\ calls[p][i].args.naturalHeight = 50
             /\ calls[p][i].result = [width |-> 800, height |-> 50]
        /\ \E i \in ChromeRenders(p) :
             /\ calls[p][i].args.html[ImageWidthAt] = << 8, 0, 0 >>
             /\ calls[p][i].args.html[ImageHeightAt] = << 5, 0 >>

(***************************************************************************)
(* Further properties of the page objects.                                 *)
(***************************************************************************)
BaseClasses == {"ComponentObjectModel", "PageObjectModel"}

\* C23: every log line a page object writes is '[POM: ClassName] action'
\* with ClassName the name of the concrete subclass the object was
\* constructed as, never the name of a base class, the same in every later
\* call on the object.
C23_LogLineNamesConcreteClass ==
    /\ pom # NoPom =>
         /\ pom.className = pomNew.className
         /\ pom.className \in PomClasses \ BaseClasses
    /\ \A s \in PomSlots :
         \A i \in LogEvents(s) :
            /\ Len(pomTrace[s][i].line) = 4
            /\ pomTrace[s][i].line[1] = "[POM: "
            /\ pomTrace[s][i].line[2] = pomNew.className
            /\ pomTrace[s][i].line[3] = "] "
            /\ pomTrace[s][i].line[4] # <<>>

\* Two calls on an ExampleComponentPom, the line of the first logged after
\* the line of the second, both under that name.
C23_Witness ==
    /\ pomNew.className = "ExampleComponentPom"
    /\ pomCalls = MaxPomCalls
    /\ \E s, t \in PomSlots :
         /\ s # t
         /\ pomCall[s].method = "hover"
         /\ pomCall[t].method = "$error"
         /\ \E i \in LogEvents(s) : pomTrace[s][i].line[2] = "ExampleComponentPom"
         /\ \E i \in LogEvents(t) : pomTrace[t][i].line[2] = "ExampleComponentPom"

\* C25: for every action, every accessor and goto, when the delegated
\* capability operation throws or rejects, the method throws or rejects
\* with the same error and makes no further capability call.
C25_CapabilityErrorsPropagate ==
    \A s \in PomSlots :
        /\ \A i \in CallEvents(s) :
             Failed(s, i) =>
                /\ pomOutcome[s].status = "rejected"
                /\ pomOutcome[s].error = CapabilityError(pomTrace[s][i].op, 0)
                /\ i = Len(pomTrace[s])
        /\ (pomCall[s].method \in Actions \cup Accessors \cup {"goto"} /\ ~Describing(s)) =>
             /\ Cardinality(CallEvents(s)) = 1
             /\ pomOutcome[s].status = "rejected" => \E i \in CallEvents(s) : Failed(s, i)
             /\ pomOutcome[s].status = "resolved" => \A i \in CallEvents(s) : Succeeded(s, i)

\* An accessor whose page.getByText threw, and an action whose awaited call
\* rejected.
C25_Witness ==
    /\ \E s \in PomSlots :
         /\ pomCall[s].method = "getByText"
         /\ pomOutcome[s].status = "rejected"
         /\ pomOutcome[s].error = CapabilityError("getByText", 0)
         /\ \E i \in CallEvents(s) : Failed(s, i) /\ i = Len(pomTrace[s])
    /\ \E s \in PomSlots :
         /\ pomCall[s].method = "click"
         /\ pomOutcome[s].status = "rejected"
         /\ pomOutcome[s].error = CapabilityError("click", 0)

\* The state a wait method sends when the caller's options carry none.
DefaultState(method) == IF method = "waitUntilVisible" THEN "visible" ELSE "hidden"

\* C30: waitUntilVisible and waitUntilHidden call locator.waitFor with
\* state 'visible' respectively 'hidden' only when the caller's options
\* carry no state; a state of the caller replaces the default, every other
\* option is forwarded; click, the other way round, sends force: true
\* whatever force the caller passed.
C30_WaitStateIsADefault ==
    \A s \in PomSlots :
        /\ pomCall[s].method \in {"waitUntilVisible", "waitUntilHidden"} =>
             \A i \in CallEvents(s) :
                /\ pomTrace[s][i].op = "waitFor"
                /\ pomTrace[s][i].target = pomCall[s].locator.selector
                /\ SentOptions(s, i).state =
                       (IF "state" \in DOMAIN Opt(pomCall[s]) THEN pomCall[s].options.state
                        ELSE DefaultState(pomCall[s].method))
                /\ DOMAIN SentOptions(s, i) = DOMAIN Opt(pomCall[s]) \cup {"state"}
                /\ \A k \in DOMAIN Opt(pomCall[s]) :
                       SentOptions(s, i)[k] = pomCall[s].options[k]
        /\ pomCall[s].method = "click" =>
             \A i \in CallEvents(s) : SentOptions(s, i).force = TRUE

\* waitUntilVisible(l, { state: 'hidden' }) waiting for hidden.
C30_Witness ==
    \E s \in PomSlots :
        /\ pomCall[s].method = "waitUntilVisible"
        /\ "options" \in DOMAIN pomCall[s]
        /\ "state" \in DOMAIN pomCall[s].options
        /\ pomCall[s].options.state = "hidden"
        /\ PomSettled(s)
        /\ \E i \in CallEvents(s) :
             pomTrace[s][i].op = "waitFor" /\ SentOptions(s, i).state = "hidden"

====
